---- MODULE Spec2Model ----
(***************************************************************************)
(* Persistent red-black tree (RBTree<T>; its header redBlackTree.h is the  *)
(* text at src/CMakeLists.txt:14-195) and the fork-join builder            *)
(* (parallelInsert / mergeTrees, src/header.h:44-93).                      *)
(*                                                                         *)
(* Nodes live in a heap: heap[p] is the Node that the shared_ptr p points  *)
(* to, 0 is nullptr.  An RBTree handle is its _root pointer.  Every        *)
(* operation that builds a tree takes the heap and returns the heap        *)
(* extended with the nodes it allocated ([h |-> heap, t |-> handle]).      *)
(* T is int with the built-in <.                                           *)
(***************************************************************************)
EXTENDS Integers, Sequences, FiniteSets, TLC

\* ---------------------------------------------------------------- bounds
MaxVal == 6        \* the fold inserts values drawn from 1..MaxVal
MaxLen == 6        \* longest sequence of inserts folded into one handle
MaxVersions == 5   \* handles a client that branches off old handles holds
MaxPoolVal == 3    \* ... and the values it inserts, 1..MaxPoolVal
MaxMergeVal == 4   \* values of the two sequences handed to mergeTrees
MaxMergeLen == 3   \* ... and the longest such sequence
MaxWordVal == 4    \* values of the vector handed to parallelInsert
MaxWords == 5      \* ... and its longest length
MaxLiveVal == 3    \* values of the vector of a call under fair scheduling
MaxLiveLen == 4    \* ... and its longest length
MaxText == 4       \* longest text handed to the tokenizer
MaxFileWords == 2  \* most words handed to writeToFile, most lines of the file before
MaxFileBytes == 3  \* most bytes of the file handed to readFile
MaxArgNodes == 3   \* most nodes of a tree handed to balance as lft or rgt
MaxOldVal == 4      \* values inserted into the ImmutableRedBlackTree: 1..MaxOldVal
MaxOldLen == 4      \* inserts folded into the ImmutableRedBlackTree
MaxInsNodes == 6   \* most nodes of a subtree the private ins is called on

Values == 1..MaxVal
PoolValues == 1..MaxPoolVal
MergeValues == 1..MaxMergeVal
WordValues == 1..MaxWordVal

\* ------------------------------------------------------------ Node store
R == "R"
B == "B"
Color == {R, B}

nullptr == 0

\* struct Node { _c, _lft, _val, _rgt }
Node(c, lft, val, rgt) == [c |-> c, lft |-> lft, val |-> val, rgt |-> rgt]

\* RBTree() : _root(nullptr)
EmptyTree == nullptr

\* RBTree(Color, RBTree, T, RBTree): make_shared<const Node>(c, lft._root, val, rgt._root)
MkTree(h, c, lft, val, rgt) ==
    [h |-> Append(h, Node(c, lft, val, rgt)), t |-> Len(h) + 1]

isEmpty(t) == t = nullptr

\* the accessors assert(!isEmpty()); they are only applied to non-empty handles here
root(h, t) == h[t].val
rootColor(h, t) == h[t].c
left(h, t) == h[t].lft
right(h, t) == h[t].rgt

paint(h, t, c) == MkTree(h, c, left(h, t), root(h, t), right(h, t))

doubledLeft(h, t) ==
    /\ ~isEmpty(t)
    /\ rootColor(h, t) = R
    /\ ~isEmpty(left(h, t))
    /\ rootColor(h, left(h, t)) = R

doubledRight(h, t) ==
    /\ ~isEmpty(t)
    /\ rootColor(h, t) = R
    /\ ~isEmpty(right(h, t))
    /\ rootColor(h, right(h, t)) = R

\* ---------------------------------------------------------- Balance engine
\* balance without its left-right case
balance_noLeftRight(h, c, lft, x, rgt) ==
    IF c = B /\ doubledLeft(h, lft) THEN
        LET a == paint(h, left(h, lft), B)
            b == MkTree(a.h, B, right(h, lft), x, rgt)
        IN  MkTree(b.h, R, a.t, root(h, lft), b.t)
    ELSE IF c = B /\ doubledLeft(h, rgt) THEN
        LET a == MkTree(h, B, lft, x, left(h, left(h, rgt)))
            b == MkTree(a.h, B, right(h, left(h, rgt)), root(h, rgt), right(h, rgt))
        IN  MkTree(b.h, R, a.t, root(h, left(h, rgt)), b.t)
    ELSE IF c = B /\ doubledRight(h, rgt) THEN
        LET a == MkTree(h, B, lft, x, left(h, rgt))
            b == paint(a.h, right(h, rgt), B)
        IN  MkTree(b.h, R, a.t, root(h, rgt), b.t)
    ELSE
        MkTree(h, c, lft, x, rgt)

\* balance whose right-right case paints the promoted root Black
balance_blackRoot(h, c, lft, x, rgt) ==
    IF c = B /\ doubledLeft(h, lft) THEN
        LET a == paint(h, left(h, lft), B)
            b == MkTree(a.h, B, right(h, lft), x, rgt)
        IN  MkTree(b.h, R, a.t, root(h, lft), b.t)
    ELSE IF c = B /\ doubledRight(h, lft) THEN
        LET a == MkTree(h, B, left(h, lft), root(h, lft), left(h, right(h, lft)))
            b == MkTree(a.h, B, right(h, right(h, lft)), x, rgt)
        IN  MkTree(b.h, R, a.t, root(h, right(h, lft)), b.t)
    ELSE IF c = B /\ doubledLeft(h, rgt) THEN
        LET a == MkTree(h, B, lft, x, left(h, left(h, rgt)))
            b == MkTree(a.h, B, right(h, left(h, rgt)), root(h, rgt), right(h, rgt))
        IN  MkTree(b.h, R, a.t, root(h, left(h, rgt)), b.t)
    ELSE IF c = B /\ doubledRight(h, rgt) THEN
        LET a == MkTree(h, B, lft, x, left(h, rgt))
            b == paint(a.h, right(h, rgt), B)
        IN  MkTree(b.h, B, a.t, root(h, rgt), b.t)
    ELSE
        MkTree(h, c, lft, x, rgt)

\* balance whose left-right case hangs the two new Black nodes on the wrong sides
balance_swapped(h, c, lft, x, rgt) ==
    IF c = B /\ doubledLeft(h, lft) THEN
        LET a == paint(h, left(h, lft), B)
            b == MkTree(a.h, B, right(h, lft), x, rgt)
        IN  MkTree(b.h, R, a.t, root(h, lft), b.t)
    ELSE IF c = B /\ doubledRight(h, lft) THEN
        LET a == MkTree(h, B, left(h, lft), root(h, lft), left(h, right(h, lft)))
            b == MkTree(a.h, B, right(h, right(h, lft)), x, rgt)
        IN  MkTree(b.h, R, b.t, root(h, right(h, lft)), a.t)
    ELSE IF c = B /\ doubledLeft(h, rgt) THEN
        LET a == MkTree(h, B, lft, x, left(h, left(h, rgt)))
            b == MkTree(a.h, B, right(h, left(h, rgt)), root(h, rgt), right(h, rgt))
        IN  MkTree(b.h, R, a.t, root(h, left(h, rgt)), b.t)
    ELSE IF c = B /\ doubledRight(h, rgt) THEN
        LET a == MkTree(h, B, lft, x, left(h, rgt))
            b == paint(a.h, right(h, rgt), B)
        IN  MkTree(b.h, R, a.t, root(h, rgt), b.t)
    ELSE
        MkTree(h, c, lft, x, rgt)

\* balance that tests the two right cases before the two left cases
balance_rightFirst(h, c, lft, x, rgt) ==
    IF c = B /\ doubledRight(h, rgt) THEN
        LET a == MkTree(h, B, lft, x, left(h, rgt))
            b == paint(a.h, right(h, rgt), B)
        IN  MkTree(b.h, R, a.t, root(h, rgt), b.t)
    ELSE IF c = B /\ doubledLeft(h, rgt) THEN
        LET a == MkTree(h, B, lft, x, left(h, left(h, rgt)))
            b == MkTree(a.h, B, right(h, left(h, rgt)), root(h, rgt), right(h, rgt))
        IN  MkTree(b.h, R, a.t, root(h, left(h, rgt)), b.t)
    ELSE IF c = B /\ doubledLeft(h, lft) THEN
        LET a == paint(h, left(h, lft), B)
            b == MkTree(a.h, B, right(h, lft), x, rgt)
        IN  MkTree(b.h, R, a.t, root(h, lft), b.t)
    ELSE IF c = B /\ doubledRight(h, lft) THEN
        LET a == MkTree(h, B, left(h, lft), root(h, lft), left(h, right(h, lft)))
            b == MkTree(a.h, B, right(h, right(h, lft)), x, rgt)
        IN  MkTree(b.h, R, a.t, root(h, right(h, lft)), b.t)
    ELSE
        MkTree(h, c, lft, x, rgt)

\* balance whose left-left case hands on left's left child without painting it Black
balance_noPaint(h, c, lft, x, rgt) ==
    IF c = B /\ doubledLeft(h, lft) THEN
        LET b == MkTree(h, B, right(h, lft), x, rgt)
        IN  MkTree(b.h, R, left(h, lft), root(h, lft), b.t)
    ELSE IF c = B /\ doubledRight(h, lft) THEN
        LET a == MkTree(h, B, left(h, lft), root(h, lft), left(h, right(h, lft)))
            b == MkTree(a.h, B, right(h, right(h, lft)), x, rgt)
        IN  MkTree(b.h, R, a.t, root(h, right(h, lft)), b.t)
    ELSE IF c = B /\ doubledLeft(h, rgt) THEN
        LET a == MkTree(h, B, lft, x, left(h, left(h, rgt)))
            b == MkTree(a.h, B, right(h, left(h, rgt)), root(h, rgt), right(h, rgt))
        IN  MkTree(b.h, R, a.t, root(h, left(h, rgt)), b.t)
    ELSE IF c = B /\ doubledRight(h, rgt) THEN
        LET a == MkTree(h, B, lft, x, left(h, rgt))
            b == paint(a.h, right(h, rgt), B)
        IN  MkTree(b.h, R, a.t, root(h, rgt), b.t)
    ELSE
        MkTree(h, c, lft, x, rgt)

\* balance that knows the two left cases only
balance_leftOnly(h, c, lft, x, rgt) ==
    IF c = B /\ doubledLeft(h, lft) THEN
        LET a == paint(h, left(h, lft), B)
            b == MkTree(a.h, B, right(h, lft), x, rgt)
        IN  MkTree(b.h, R, a.t, root(h, lft), b.t)
    ELSE IF c = B /\ doubledRight(h, lft) THEN
        LET a == MkTree(h, B, left(h, lft), root(h, lft), left(h, right(h, lft)))
            b == MkTree(a.h, B, right(h, right(h, lft)), x, rgt)
        IN  MkTree(b.h, R, a.t, root(h, right(h, lft)), b.t)
    ELSE
        MkTree(h, c, lft, x, rgt)

\* The order in which the constructor arguments are evaluated only decides
\* which pointer each new node gets; the tree that is built is the same.
balance(h, c, lft, x, rgt) ==
    IF c = B /\ doubledLeft(h, lft) THEN
        LET a == paint(h, left(h, lft), B)
            b == MkTree(a.h, B, right(h, lft), x, rgt)
        IN  MkTree(b.h, R, a.t, root(h, lft), b.t)
    ELSE IF c = B /\ doubledRight(h, lft) THEN
        LET a == MkTree(h, B, left(h, lft), root(h, lft), left(h, right(h, lft)))
            b == MkTree(a.h, B, right(h, right(h, lft)), x, rgt)
        IN  MkTree(b.h, R, a.t, root(h, right(h, lft)), b.t)
    ELSE IF c = B /\ doubledLeft(h, rgt) THEN
        LET a == MkTree(h, B, lft, x, left(h, left(h, rgt)))
            b == MkTree(a.h, B, right(h, left(h, rgt)), root(h, rgt), right(h, rgt))
        IN  MkTree(b.h, R, a.t, root(h, left(h, rgt)), b.t)
    ELSE IF c = B /\ doubledRight(h, rgt) THEN
        LET a == MkTree(h, B, lft, x, left(h, rgt))
            b == paint(a.h, right(h, rgt), B)
        IN  MkTree(b.h, R, a.t, root(h, rgt), b.t)
    ELSE
        MkTree(h, c, lft, x, rgt)

\* ins that sends an equal value to the right subtree instead of returning *this
RECURSIVE ins_noEqual(_, _, _)
ins_noEqual(h, t, x) ==
    IF isEmpty(t) THEN MkTree(h, R, EmptyTree, x, EmptyTree)
    ELSE LET y == root(h, t)
             c == rootColor(h, t)
         IN  IF x < y THEN
                 LET l == ins_noEqual(h, left(h, t), x)
                 IN  balance(l.h, c, l.t, y, right(h, t))
             ELSE
                 LET r == ins_noEqual(h, right(h, t), x)
                 IN  balance(r.h, c, left(h, t), y, r.t)

\* ins that hangs the new node into the existing nodes instead of copying the path
RECURSIVE ins_mutating(_, _, _)
ins_mutating(h, t, x) ==
    IF isEmpty(t) THEN MkTree(h, R, EmptyTree, x, EmptyTree)
    ELSE LET y == root(h, t)
         IN  IF x < y THEN
                 LET l == ins_mutating(h, left(h, t), x)
                 IN  [h |-> [l.h EXCEPT ![t].lft = l.t], t |-> t]
             ELSE IF y < x THEN
                 LET r == ins_mutating(h, right(h, t), x)
                 IN  [h |-> [r.h EXCEPT ![t].rgt = r.t], t |-> t]
             ELSE [h |-> h, t |-> t]

\* ins that rebuilds the node over the new subtree without calling balance
RECURSIVE ins_noBalance(_, _, _)
ins_noBalance(h, t, x) ==
    IF isEmpty(t) THEN MkTree(h, R, EmptyTree, x, EmptyTree)
    ELSE LET y == root(h, t)
             c == rootColor(h, t)
         IN  IF x < y THEN
                 CHOOSE b \in {MkTree(l.h, c, l.t, y, right(h, t)) :
                                  l \in {ins_noBalance(h, left(h, t), x)}} : TRUE
             ELSE IF y < x THEN
                 CHOOSE b \in {MkTree(r.h, c, left(h, t), y, r.t) :
                                  r \in {ins_noBalance(h, right(h, t), x)}} : TRUE
             ELSE [h |-> h, t |-> t]

\* ins that hands balance a copy of the right subtree's root when it goes left
RECURSIVE ins_copiesSibling(_, _, _)
ins_copiesSibling(h, t, x) ==
    IF isEmpty(t) THEN MkTree(h, R, EmptyTree, x, EmptyTree)
    ELSE LET y == root(h, t)
             c == rootColor(h, t)
             s == right(h, t)
         IN  IF x < y THEN
                 CHOOSE b \in {IF isEmpty(s) THEN balance(l.h, c, l.t, y, s)
                                ELSE balance(l.h \o <<h[s]>>, c, l.t, y, Len(l.h) + 1) :
                                  l \in {ins_copiesSibling(h, left(h, t), x)}} : TRUE
             ELSE IF y < x THEN
                 CHOOSE b \in {balance(r.h, c, left(h, t), y, r.t) :
                                  r \in {ins_copiesSibling(h, right(h, t), x)}} : TRUE
             ELSE [h |-> h, t |-> t]

\* The subtree's ins is an argument of balance, evaluated once before the call: l and r
\* range over the one result of the recursive call.
RECURSIVE ins(_, _, _)
ins(h, t, x) ==
    IF isEmpty(t) THEN MkTree(h, R, EmptyTree, x, EmptyTree)
    ELSE LET y == root(h, t)
             c == rootColor(h, t)
         IN  IF x < y THEN
                 CHOOSE b \in {balance(l.h, c, l.t, y, right(h, t)) :
                                  l \in {ins(h, left(h, t), x)}} : TRUE
             ELSE IF y < x THEN
                 CHOOSE b \in {balance(r.h, c, left(h, t), y, r.t) :
                                  r \in {ins(h, right(h, t), x)}} : TRUE
             ELSE [h |-> h, t |-> t]

\* the number of nested activations of ins that ins(x) on t reaches: one on
\* an empty tree or an equal root, otherwise one more than in the subtree
RECURSIVE insDepth(_, _, _)
insDepth(h, t, x) ==
    IF isEmpty(t) THEN 1
    ELSE IF x < root(h, t) THEN 1 + insDepth(h, left(h, t), x)
    ELSE IF root(h, t) < x THEN 1 + insDepth(h, right(h, t), x)
    ELSE 1

\* insert that hands out what ins returned, without the Black root
insert_noRepaint(h, t, x) == ins(h, t, x)

\* public insert: ins, then a new Black root over the result's children
insert(h, t, x) ==
    LET r == ins(h, t, x)
    IN  MkTree(r.h, B, left(r.h, r.t), root(r.h, r.t), right(r.h, r.t))

RECURSIVE getSortedValuesHelper(_, _, _)
getSortedValuesHelper(h, node, result) ==
    IF node = nullptr THEN result
    ELSE LET l == getSortedValuesHelper(h, h[node].lft, result)
         IN  getSortedValuesHelper(h, h[node].rgt, Append(l, h[node].val))

getSortedValues(h, t) == getSortedValuesHelper(h, t, <<>>)

\* ------------------------------------------------------- Merge algorithm
\* std::accumulate(first, last, init, op), op being [](tree, v) { return tree.insert(v); }
RECURSIVE accumulateInsert(_, _, _, _, _)
accumulateInsert(h, seq, first, last, t) ==
    IF first >= last THEN [h |-> h, t |-> t]
    ELSE LET r == insert(h, t, seq[first])
         IN  accumulateInsert(r.h, seq, first + 1, last, r.t)

\* mergeTrees that folds into a fresh tree instead of tree1
mergeTrees_fromEmpty(h, tree1, tree2) ==
    LET sortedValues == getSortedValues(h, tree2)
    IN  accumulateInsert(h, sortedValues, 1, Len(sortedValues) + 1, EmptyTree)

\* iterators are 1-based here: [first, last) of the C++ range [begin + a, begin + b) is [a + 1, b + 1)
mergeTrees(h, tree1, tree2) ==
    LET sortedValues == getSortedValues(h, tree2)
    IN  accumulateInsert(h, sortedValues, 1, Len(sortedValues) + 1, tree1)

\* ------------------------------------------------------------------ state
VARIABLES
    heap,       \* the Nodes allocated so far
    \* a client folding insert (test.cpp, processFileWithTiming)
    versions,   \* every handle the client holds, in the order it got them
    inputs,     \* inputs[i]: the values folded by insert to build versions[i]
    \* a caller of mergeTrees
    mpc,        \* "A": building treeA, "B": building treeB, "merged": mergeTrees returned
    treeA, seqA,
    treeB, seqB,
    merged,     \* the handle mergeTrees(treeA, treeB) returned
    \* one call of parallelInsert(words)
    pc,         \* "called", "forked" (both workers launched), "returned"
    words,      \* the input vector
    mid,
    tree1, pos1,    \* first worker: its accumulator, the index it inserts next
    tree2, pos2,    \* second worker
    result,     \* the handle parallelInsert returned
    exc1, exc2,     \* the exception a worker's fold ended with is stored in its future
    sortedValues,   \* mergeTrees, one insert per step: tree2's in-order values,
    mpos, acc,      \* the index of the value inserted next, the accumulated tree
    \* a client calling the accessors
    call,       \* the last accessor call: [op, t]
    ret,        \* what it returned
    fault,      \* an assert has failed and the process was aborted
    \* one call of tokenize(text) or of parallelTokenize(text)
    text,       \* the input, a sequence of bytes
    ub,         \* what std::isalnum does with a negative char in this build and run
    tpc,        \* "called", the stage reached, "returned", or "aborted"
    processed,  \* tokenize: what preprocess returned
    rawTokens,  \* tokenize: what splitIntoWords returned
    tmid,       \* parallelTokenize: mid, a 0-based index into text
    words1, done1,  \* future1: its result, whether the task has run
    words2, done2,  \* future2
    tokens,     \* the vector returned
    \* calls of writeToFile(filePath, words)
    file,       \* the destination: whether it exists, the lines it holds
    openable,   \* whether filePath can be opened for writing
    wwords,     \* the words of the last call
    wstatus,    \* "idle", the last call "returned" or "threw"
    \* one call of the private balance(c, lft, x, rgt) or of the private lft.ins(x)
    argC, argL, argX, argR,
    res,        \* the handle returned
    fpc,        \* "idle", "called", "returned"
    \* one call of readFile(filePath)
    inFile,     \* what filePath names: whether it exists, can be opened, its bytes
    content,    \* the string returned
    rstatus,    \* "idle", "returned" or "threw"
    rexc,       \* the type of the exception thrown
    \* one call of processFileWithTiming(inputPath, outputPath, useParallel)
    useParallel,
    sorted,     \* what tree.getSortedValues() returned
    sstatus,    \* "idle", or "sorted" once sorted is set
    reported    \* the catch block has written the error to std::cerr

clientVars == <<versions, inputs>>
mergeVars == <<mpc, treeA, seqA, treeB, seqB, merged>>
parVars == <<pc, words, mid, tree1, pos1, tree2, pos2, result>>
failVars == <<exc1, exc2>>
stepVars == <<sortedValues, mpos, acc>>
accessVars == <<call, ret, fault>>
tokVars == <<text, ub, tpc, processed, rawTokens, tmid, words1, done1, words2, done2, tokens>>
fileVars == <<file, openable, wwords, wstatus>>
ioVars == <<tokVars, fileVars>>
fnVars == <<argC, argL, argX, argR, res, fpc>>
readVars == <<inFile, content, rstatus, rexc>>
pipeVars == <<useParallel, sorted, sstatus, reported>>
lateVars == <<fnVars, readVars, pipeVars>>
otherVars == <<failVars, stepVars, accessVars, ioVars, lateVars>>
vars == <<heap, clientVars, mergeVars, parVars, otherVars>>

ClientInit ==
    /\ versions = <<EmptyTree>>
    /\ inputs = << <<>> >>

MergeInit ==
    /\ mpc = "A"
    /\ treeA = EmptyTree /\ seqA = <<>>
    /\ treeB = EmptyTree /\ seqB = <<>>
    /\ merged = EmptyTree

ParInit ==
    /\ pc = "called"
    /\ mid = 0
    /\ tree1 = EmptyTree /\ pos1 = 1
    /\ tree2 = EmptyTree /\ pos2 = 1
    /\ result = EmptyTree

NoCall == [op |-> "none", t |-> nullptr]
NoValue == "none"

CallInit ==
    /\ exc1 = FALSE /\ exc2 = FALSE
    /\ sortedValues = <<>> /\ mpos = 1 /\ acc = EmptyTree
    /\ call = NoCall /\ ret = NoValue /\ fault = FALSE

\* the locals of tokenize and parallelTokenize before they are set
TokLocalsInit ==
    /\ processed = <<>> /\ rawTokens = <<>>
    /\ tmid = 0
    /\ words1 = <<>> /\ done1 = FALSE
    /\ words2 = <<>> /\ done2 = FALSE
    /\ tokens = <<>>

TokInit ==
    /\ text = <<>> /\ ub = "false" /\ tpc = "idle"
    /\ TokLocalsInit

\* no file at filePath
Absent == [exists |-> FALSE, lines |-> <<>>]

\* a file holding the given lines
FileOf(lines) == [exists |-> TRUE, lines |-> lines]

FileInit ==
    /\ file = Absent /\ openable = TRUE
    /\ wwords = <<>> /\ wstatus = "idle"

\* no private function called
FnInit ==
    /\ argC = B /\ argL = EmptyTree /\ argX = 0 /\ argR = EmptyTree
    /\ res = EmptyTree
    /\ fpc = "idle"

\* nothing at filePath
AbsentFile == [exists |-> FALSE, readable |-> FALSE, bytes |-> <<>>]

NoException == "none"

ReadLocalsInit ==
    /\ content = <<>> /\ rstatus = "idle" /\ rexc = NoException

ReadInit ==
    /\ inFile = AbsentFile
    /\ ReadLocalsInit

PipeLocalsInit ==
    /\ sorted = <<>> /\ sstatus = "idle" /\ reported = FALSE

PipeInit ==
    /\ useParallel = FALSE
    /\ PipeLocalsInit

LateInit ==
    /\ FnInit
    /\ ReadInit
    /\ PipeInit

OtherInit ==
    /\ CallInit
    /\ TokInit
    /\ FileInit
    /\ LateInit

SeqsUpTo(S, n) == UNION {[1..k -> S] : k \in 0..n}

Init ==
    /\ heap = <<>>
    /\ ClientInit
    /\ MergeInit
    /\ ParInit /\ words = <<>>
    /\ OtherInit

\* ------------------------------------------------- the client of RBTree
\* t' = versions[i].insert(x); the client keeps both handles
Insert(i, x) ==
    /\ Len(inputs[i]) < MaxLen
    /\ LET r == insert(heap, versions[i], x)
       IN  /\ heap' = r.h
           /\ versions' = Append(versions, r.t)
           /\ inputs' = Append(inputs, Append(inputs[i], x))
    /\ UNCHANGED <<mergeVars, parVars, otherVars>>

\* tree = tree.insert(value): the fold of the tests and of processFileWithTiming
InsertNext(x) == Insert(Len(versions), x)

Next == \E x \in Values : InsertNext(x)

Spec == Init /\ [][Next]_vars

\* a client that also inserts into handles it got earlier
InsertAny(i, x) ==
    /\ Len(versions) < MaxVersions
    /\ Insert(i, x)

NextPool == \E i \in 1..Len(versions), x \in PoolValues : InsertAny(i, x)

SpecPool == Init /\ [][NextPool]_vars

\* ------------------------------------------------ the caller of mergeTrees
InsertA(x) ==
    /\ mpc = "A"
    /\ Len(seqA) < MaxMergeLen
    /\ LET r == insert(heap, treeA, x)
       IN  heap' = r.h /\ treeA' = r.t
    /\ seqA' = Append(seqA, x)
    /\ UNCHANGED <<mpc, treeB, seqB, merged, clientVars, parVars, otherVars>>

StartB ==
    /\ mpc = "A"
    /\ mpc' = "B"
    /\ UNCHANGED <<heap, treeA, seqA, treeB, seqB, merged, clientVars, parVars, otherVars>>

InsertB(x) ==
    /\ mpc = "B"
    /\ Len(seqB) < MaxMergeLen
    /\ LET r == insert(heap, treeB, x)
       IN  heap' = r.h /\ treeB' = r.t
    /\ seqB' = Append(seqB, x)
    /\ UNCHANGED <<mpc, treeA, seqA, merged, clientVars, parVars, otherVars>>

MergeTrees ==
    /\ mpc = "B"
    /\ LET r == mergeTrees(heap, treeA, treeB)
       IN  heap' = r.h /\ merged' = r.t
    /\ mpc' = "merged"
    /\ UNCHANGED <<treeA, seqA, treeB, seqB, clientVars, parVars, otherVars>>

NextMerge ==
    \/ \E x \in MergeValues : InsertA(x)
    \/ StartB
    \/ \E x \in MergeValues : InsertB(x)
    \/ MergeTrees

SpecMerge == Init /\ [][NextMerge]_vars

\* ------------------------------------- mergeTrees, iteration by iteration
\* mergeTrees that folds b's values in the order they were inserted into b
MergeCall_insertionOrder ==
    /\ mpc = "B"
    /\ sortedValues' = seqB
    /\ mpos' = 1
    /\ acc' = treeA
    /\ mpc' = "merging"
    /\ UNCHANGED <<heap, treeA, seqA, treeB, seqB, merged, clientVars, parVars,
                   failVars, accessVars, ioVars, lateVars>>

\* auto sortedValues = tree2.getSortedValues(); std::accumulate's init = tree1
MergeCall ==
    /\ mpc = "B"
    /\ sortedValues' = getSortedValues(heap, treeB)
    /\ mpos' = 1
    /\ acc' = treeA
    /\ mpc' = "merging"
    /\ UNCHANGED <<heap, treeA, seqA, treeB, seqB, merged, clientVars, parVars,
                   failVars, accessVars, ioVars, lateVars>>

\* one iteration of std::accumulate: accumulatedTree.insert(value)
MergeInsert ==
    /\ mpc = "merging"
    /\ mpos < Len(sortedValues) + 1
    /\ LET r == insert(heap, acc, sortedValues[mpos])
       IN  heap' = r.h /\ acc' = r.t
    /\ mpos' = mpos + 1
    /\ UNCHANGED <<sortedValues, mergeVars, clientVars, parVars,
                   failVars, accessVars, ioVars, lateVars>>

\* std::accumulate has reached sortedValues.end(): mergeTrees returns
MergeDone ==
    /\ mpc = "merging"
    /\ mpos = Len(sortedValues) + 1
    /\ merged' = acc
    /\ mpc' = "merged"
    /\ UNCHANGED <<heap, treeA, seqA, treeB, seqB, clientVars, parVars, otherVars>>

NextMergeSteps ==
    \/ \E x \in MergeValues : InsertA(x)
    \/ StartB
    \/ \E x \in MergeValues : InsertB(x)
    \/ MergeCall
    \/ MergeInsert
    \/ MergeDone

SpecMergeSteps == Init /\ [][NextMergeSteps]_vars

\* ------------------------------------------------------- parallelInsert
\* if (words.empty()) return RBTree<T>();
ReturnEmpty ==
    /\ pc = "called"
    /\ words = <<>>
    /\ result' = EmptyTree
    /\ pc' = "returned"
    /\ UNCHANGED <<heap, words, mid, tree1, pos1, tree2, pos2, clientVars, mergeVars, otherVars>>

\* Fork whose second worker starts one element past the midpoint
Fork_skipsMid ==
    /\ pc = "called"
    /\ words # <<>>
    /\ mid' = Len(words) \div 2
    /\ pos1' = 1
    /\ pos2' = (Len(words) \div 2) + 2
    /\ tree1' = EmptyTree
    /\ tree2' = EmptyTree
    /\ pc' = "forked"
    /\ UNCHANGED <<heap, words, result, clientVars, mergeVars, otherVars>>

\* Fork without the empty-input check in front of it
Fork_noEmptyCheck ==
    /\ pc = "called"
    /\ mid' = Len(words) \div 2
    /\ pos1' = 1
    /\ pos2' = (Len(words) \div 2) + 1
    /\ tree1' = EmptyTree
    /\ tree2' = EmptyTree
    /\ pc' = "forked"
    /\ UNCHANGED <<heap, words, result, clientVars, mergeVars, otherVars>>

\* Fork that rounds the midpoint up
Fork_roundsUp ==
    /\ pc = "called"
    /\ words # <<>>
    /\ mid' = (Len(words) + 1) \div 2
    /\ pos1' = 1
    /\ pos2' = ((Len(words) + 1) \div 2) + 1
    /\ tree1' = EmptyTree
    /\ tree2' = EmptyTree
    /\ pc' = "forked"
    /\ UNCHANGED <<heap, words, result, clientVars, mergeVars, otherVars>>

\* mid = words.size() / 2; the two std::async(std::launch::async, ...) calls.
\* Worker 1 folds [begin, begin + mid), worker 2 [begin + mid, end); indices are 1-based here.
Fork ==
    /\ pc = "called"
    /\ words # <<>>
    /\ mid' = Len(words) \div 2
    /\ pos1' = 1
    /\ pos2' = (Len(words) \div 2) + 1
    /\ tree1' = EmptyTree
    /\ tree2' = EmptyTree
    /\ pc' = "forked"
    /\ UNCHANGED <<heap, words, result, clientVars, mergeVars, otherVars>>

\* first worker whose fold stops one element before its end iterator
Worker1Step_stopsEarly ==
    /\ pc = "forked"
    /\ ~exc1
    /\ pos1 < mid
    /\ LET r == insert(heap, tree1, words[pos1])
       IN  heap' = r.h /\ tree1' = r.t
    /\ pos1' = pos1 + 1
    /\ UNCHANGED <<pc, words, mid, tree2, pos2, result, clientVars, mergeVars, otherVars>>

\* one iteration of the first worker's std::accumulate
Worker1Step ==
    /\ pc = "forked"
    /\ ~exc1
    /\ pos1 < mid + 1
    /\ LET r == insert(heap, tree1, words[pos1])
       IN  heap' = r.h /\ tree1' = r.t
    /\ pos1' = pos1 + 1
    /\ UNCHANGED <<pc, words, mid, tree2, pos2, result, clientVars, mergeVars, otherVars>>

\* second worker that folds into the first worker's accumulator
Worker2Step_sharedTree ==
    /\ pc = "forked"
    /\ ~exc2
    /\ pos2 < Len(words) + 1
    /\ LET r == insert(heap, tree1, words[pos2])
       IN  heap' = r.h /\ tree1' = r.t
    /\ pos2' = pos2 + 1
    /\ UNCHANGED <<pc, words, mid, tree2, pos1, result, clientVars, mergeVars, otherVars>>

\* one iteration of the second worker's std::accumulate
Worker2Step ==
    /\ pc = "forked"
    /\ ~exc2
    /\ pos2 < Len(words) + 1
    /\ LET r == insert(heap, tree2, words[pos2])
       IN  heap' = r.h /\ tree2' = r.t
    /\ pos2' = pos2 + 1
    /\ UNCHANGED <<pc, words, mid, tree1, pos1, result, clientVars, mergeVars, otherVars>>

\* Join that does not wait for the second worker
Join_early ==
    /\ pc = "forked"
    /\ ~exc1 /\ pos1 = mid + 1
    /\ LET r == mergeTrees(heap, tree1, tree2)
       IN  heap' = r.h /\ result' = r.t
    /\ pc' = "returned"
    /\ UNCHANGED <<words, mid, tree1, pos1, tree2, pos2, clientVars, mergeVars, otherVars>>

\* Join that takes whatever tree a worker has left behind, thrown or not
Join_ignoresFailure ==
    /\ pc = "forked"
    /\ exc1 \/ pos1 = mid + 1
    /\ exc2 \/ pos2 = Len(words) + 1
    /\ LET r == mergeTrees(heap, tree1, tree2)
       IN  heap' = r.h /\ result' = r.t
    /\ pc' = "returned"
    /\ UNCHANGED <<words, mid, tree1, pos1, tree2, pos2, clientVars, mergeVars, otherVars>>

\* return mergeTrees(futureTree1.get(), futureTree2.get()): get() blocks until the worker is
\* done and hands out its tree only if the fold ended without an exception
Join ==
    /\ pc = "forked"
    /\ ~exc1 /\ pos1 = mid + 1
    /\ ~exc2 /\ pos2 = Len(words) + 1
    /\ LET r == mergeTrees(heap, tree1, tree2)
       IN  heap' = r.h /\ result' = r.t
    /\ pc' = "returned"
    /\ UNCHANGED <<words, mid, tree1, pos1, tree2, pos2, clientVars, mergeVars, otherVars>>

InitPar ==
    /\ heap = <<>>
    /\ ClientInit
    /\ MergeInit
    /\ ParInit /\ words \in SeqsUpTo(WordValues, MaxWords)
    /\ OtherInit

NextPar ==
    \/ ReturnEmpty
    \/ Fork
    \/ Worker1Step
    \/ Worker2Step
    \/ Join

SpecPar == InitPar /\ [][NextPar]_vars

\* --------------------------------------- parallelInsert, a worker failing
\* An insert of the first worker throws (make_shared: std::bad_alloc, or T's copy):
\* the fold is unwound, its accumulator destroyed, the exception kept in the future.
Worker1Fails ==
    /\ pc = "forked"
    /\ ~exc1
    /\ pos1 < mid + 1
    /\ exc1' = TRUE
    /\ tree1' = EmptyTree
    /\ UNCHANGED <<heap, pc, words, mid, pos1, tree2, pos2, result, exc2,
                   clientVars, mergeVars, stepVars, accessVars, ioVars, lateVars>>

Worker2Fails ==
    /\ pc = "forked"
    /\ ~exc2
    /\ pos2 < Len(words) + 1
    /\ exc2' = TRUE
    /\ tree2' = EmptyTree
    /\ UNCHANGED <<heap, pc, words, mid, tree1, pos1, pos2, result, exc1,
                   clientVars, mergeVars, stepVars, accessVars, ioVars, lateVars>>

\* get() of a future that holds an exception rethrows it: mergeTrees is not called, and
\* parallelInsert is left by the exception once both futures, whose destructors wait for
\* their workers, are gone
Rethrow ==
    /\ pc = "forked"
    /\ exc1 \/ exc2
    /\ exc1 \/ pos1 = mid + 1
    /\ exc2 \/ pos2 = Len(words) + 1
    /\ pc' = "threw"
    /\ UNCHANGED <<heap, words, mid, tree1, pos1, tree2, pos2, result,
                   clientVars, mergeVars, otherVars>>

NextParFail ==
    \/ ReturnEmpty
    \/ Fork
    \/ Worker1Step
    \/ Worker2Step
    \/ Worker1Fails
    \/ Worker2Fails
    \/ Join
    \/ Rethrow

SpecParFail == InitPar /\ [][NextParFail]_vars

\* ------------------------------- parallelInsert, the merge insert by insert
\* parallelInsert(words) is called with some vector
Call ==
    /\ pc = "idle"
    /\ words' \in SeqsUpTo(1..MaxLiveVal, MaxLiveLen)
    /\ pc' = "called"
    /\ UNCHANGED <<heap, mid, tree1, pos1, tree2, pos2, result, clientVars, mergeVars, otherVars>>

\* both get() have returned; mergeTrees: sortedValues = tree2.getSortedValues(), init = tree1
MergeBegin ==
    /\ pc = "forked"
    /\ ~exc1 /\ pos1 = mid + 1
    /\ ~exc2 /\ pos2 = Len(words) + 1
    /\ sortedValues' = getSortedValues(heap, tree2)
    /\ mpos' = 1
    /\ acc' = tree1
    /\ pc' = "merging"
    /\ UNCHANGED <<heap, words, mid, tree1, pos1, tree2, pos2, result,
                   clientVars, mergeVars, failVars, accessVars, ioVars, lateVars>>

\* one iteration of mergeTrees' std::accumulate
MergeStep ==
    /\ pc = "merging"
    /\ mpos < Len(sortedValues) + 1
    /\ LET r == insert(heap, acc, sortedValues[mpos])
       IN  heap' = r.h /\ acc' = r.t
    /\ mpos' = mpos + 1
    /\ UNCHANGED <<pc, words, mid, tree1, pos1, tree2, pos2, result, sortedValues,
                   clientVars, mergeVars, failVars, accessVars, ioVars, lateVars>>

\* mergeTrees returns the accumulated tree, parallelInsert returns it
MergeReturn ==
    /\ pc = "merging"
    /\ mpos = Len(sortedValues) + 1
    /\ result' = acc
    /\ pc' = "returned"
    /\ UNCHANGED <<heap, words, mid, tree1, pos1, tree2, pos2,
                   clientVars, mergeVars, otherVars>>

InitParLive ==
    /\ heap = <<>>
    /\ ClientInit
    /\ MergeInit
    /\ pc = "idle" /\ words = <<>>
    /\ mid = 0
    /\ tree1 = EmptyTree /\ pos1 = 1
    /\ tree2 = EmptyTree /\ pos2 = 1
    /\ result = EmptyTree
    /\ OtherInit

NextParLive ==
    \/ Call
    \/ ReturnEmpty
    \/ Fork
    \/ Worker1Step
    \/ Worker2Step
    \/ MergeBegin
    \/ MergeStep
    \/ MergeReturn

\* the scheduler never stops while a launched worker or the caller can take a step
SpecParLive == InitParLive /\ [][NextParLive]_vars /\ WF_vars(NextParLive)

\* ----------------------------------------------- the accessors of RBTree
\* assert(!isEmpty()) in front of every accessor body
assertNotEmpty(t) == ~isEmpty(t)

Accessors == {"root", "rootColor", "left", "right"}

\* the handles the client can call an accessor on: those insert returned, RBTree(),
\* and the sub-handle the last left() or right() returned
Held ==
    {versions[i] : i \in DOMAIN versions}
        \cup (IF call.op \in {"left", "right"} /\ ~fault THEN {ret} ELSE {})

\* an accessor that answers a default on the empty handle instead of asserting
Access_defaultOnEmpty(t, op) ==
    /\ call' = [op |-> op, t |-> t]
    /\ fault' = fault
    /\ ret' = IF isEmpty(t)
              THEN (CASE op = "root" -> 0
                      [] op = "rootColor" -> B
                      [] op = "left" -> EmptyTree
                      [] op = "right" -> EmptyTree)
              ELSE (CASE op = "root" -> root(heap, t)
                      [] op = "rootColor" -> rootColor(heap, t)
                      [] op = "left" -> left(heap, t)
                      [] op = "right" -> right(heap, t))
    /\ UNCHANGED <<heap, clientVars, mergeVars, parVars, failVars, stepVars, ioVars, lateVars>>

\* t.root(), t.rootColor(), t.left() or t.right()
Access(t, op) ==
    /\ call' = [op |-> op, t |-> t]
    /\ IF assertNotEmpty(t)
       THEN /\ fault' = fault
            /\ ret' = CASE op = "root" -> root(heap, t)
                        [] op = "rootColor" -> rootColor(heap, t)
                        [] op = "left" -> left(heap, t)
                        [] op = "right" -> right(heap, t)
       ELSE /\ fault' = TRUE
            /\ ret' = NoValue
    /\ UNCHANGED <<heap, clientVars, mergeVars, parVars, failVars, stepVars, ioVars, lateVars>>

\* an aborted process takes no further step
NextAccess ==
    /\ ~fault
    /\ \/ \E x \in PoolValues : InsertAny(Len(versions), x)
       \/ \E t \in Held, op \in Accessors : Access(t, op)

SpecAccess == Init /\ [][NextAccess]_vars

\* ------------------------------------------------------- the tokenizer
\* A text is a sequence of bytes 0..255.  The texts checked are made of
\* 'a', 'B', '7', '\'', ' ', '.' and 0xC3, the first byte of a UTF-8 letter.
Chars == {97, 66, 55, 39, 32, 46, 195}

Apostrophe == 39
Space == 32

\* std::isalnum, std::tolower and the stream's whitespace in the "C" locale (the
\* program never calls setlocale), on a value representable as unsigned char
isalnum(c) == c \in (48..57) \cup (65..90) \cup (97..122)
tolower(c) == IF c \in 65..90 THEN c + 32 ELSE c
isspace(c) == c \in (9..13) \cup {Space}

\* preprocess: every byte, as unsigned char, lower-cased if alphanumeric or apostrophe, else ' '
preprocess(input) ==
    [i \in 1..Len(input) |->
        IF isalnum(input[i]) \/ input[i] = Apostrophe THEN tolower(input[i]) ELSE Space]

\* istream_iterator<std::string>: operator>> skips whitespace, then reads up to the next
\* whitespace or the end; cur is the word being read from position i on
RECURSIVE extractWords(_, _, _, _)
extractWords(stream, i, cur, out) ==
    IF i > Len(stream) THEN (IF cur = <<>> THEN out ELSE Append(out, cur))
    ELSE IF isspace(stream[i]) THEN
        extractWords(stream, i + 1, <<>>, IF cur = <<>> THEN out ELSE Append(out, cur))
    ELSE extractWords(stream, i + 1, Append(cur, stream[i]), out)

splitIntoWords(str) == extractWords(str, 1, <<>>, <<>>)

\* trimApostrophes that strips the leading apostrophes only
trimApostrophes_leadingOnly(word) ==
    IF word = <<>> THEN <<>>
    ELSE LET notApostrophe == {i \in 1..Len(word) : word[i] # Apostrophe}
         IN  IF notApostrophe = {} THEN <<>>
             ELSE SubSeq(word, CHOOSE i \in notApostrophe : \A j \in notApostrophe : i <= j,
                         Len(word))

\* start = find_first_not_of("'"), end = find_last_not_of("'"), substr(start, end - start + 1)
trimApostrophes(word) ==
    IF word = <<>> THEN <<>>
    ELSE LET notApostrophe == {i \in 1..Len(word) : word[i] # Apostrophe}
         IN  IF notApostrophe = {} THEN <<>>
             ELSE SubSeq(word, CHOOSE i \in notApostrophe : \A j \in notApostrophe : i <= j,
                         CHOOSE i \in notApostrophe : \A j \in notApostrophe : j <= i)

\* cleanTokens: accumulate over the tokens, pushing each non-empty trimmed one
RECURSIVE cleanFrom(_, _, _)
cleanFrom(toks, i, out) ==
    IF i > Len(toks) THEN out
    ELSE LET cleaned == trimApostrophes(toks[i])
         IN  cleanFrom(toks, i + 1, IF cleaned # <<>> THEN Append(out, cleaned) ELSE out)

cleanTokens(toks) == cleanFrom(toks, 1, <<>>)

tokenize(str) == cleanTokens(splitIntoWords(preprocess(str)))

\* a call of tokenize or parallelTokenize with some text, in some build
InitTok ==
    /\ heap = <<>>
    /\ ClientInit
    /\ MergeInit
    /\ ParInit /\ words = <<>>
    /\ CallInit
    /\ FileInit
    /\ text \in SeqsUpTo(Chars, MaxText)
    /\ ub \in {"true", "false", "fault"}
    /\ tpc = "called"
    /\ TokLocalsInit
    /\ LateInit

notTok == <<heap, clientVars, mergeVars, parVars, failVars, stepVars, accessVars, fileVars, lateVars>>

\* tokenize(text), stage by stage
Preprocess ==
    /\ tpc = "called"
    /\ processed' = preprocess(text)
    /\ tpc' = "preprocessed"
    /\ UNCHANGED <<text, ub, rawTokens, tmid, words1, done1, words2, done2, tokens, notTok>>

SplitIntoWords ==
    /\ tpc = "preprocessed"
    /\ rawTokens' = splitIntoWords(processed)
    /\ tpc' = "split"
    /\ UNCHANGED <<text, ub, processed, tmid, words1, done1, words2, done2, tokens, notTok>>

CleanTokens ==
    /\ tpc = "split"
    /\ tokens' = cleanTokens(rawTokens)
    /\ tpc' = "returned"
    /\ UNCHANGED <<text, ub, processed, rawTokens, tmid, words1, done1, words2, done2, notTok>>

NextTokenize ==
    \/ Preprocess
    \/ SplitIntoWords
    \/ CleanTokens

SpecTokenize == InitTok /\ [][NextTokenize]_vars

\* std::isalnum(text[mid]) in parallelTokenize: text[mid] is a plain char, negative for
\* a byte above 127 where char is signed, and std::isalnum of a negative value other
\* than EOF is undefined: the library answers from outside its table, true or false,
\* or traps (u)
isalnumOfChar(c, u) ==
    IF c > 127 THEN u
    ELSE IF isalnum(c) THEN "true" ELSE "false"

\* (std::isalnum(text[mid]) || text[mid] == '\''), mid a 0-based index
wordCharAt(str, m, u) ==
    LET a == isalnumOfChar(str[m + 1], u)
    IN  IF a = "false" /\ str[m + 1] = Apostrophe THEN "true" ELSE a

\* while (mid > 0 && (std::isalnum(text[mid]) || text[mid] == '\'')) --mid;
RECURSIVE scanBack(_, _, _)
scanBack(str, m, u) ==
    IF m > 0 /\ wordCharAt(str, m, u) = "true" THEN scanBack(str, m - 1, u)
    ELSE [mid |-> m, trap |-> m > 0 /\ wordCharAt(str, m, u) = "fault"]

\* if (text.empty()) return {};
PTReturnEmpty ==
    /\ tpc = "called"
    /\ text = <<>>
    /\ tokens' = <<>>
    /\ tpc' = "returned"
    /\ UNCHANGED <<text, ub, processed, rawTokens, tmid, words1, done1, words2, done2, notTok>>

\* if (text.size() < 2) return tokenize(text);
PTReturnShort ==
    /\ tpc = "called"
    /\ text # <<>> /\ Len(text) < 2
    /\ tokens' = tokenize(text)
    /\ tpc' = "returned"
    /\ UNCHANGED <<text, ub, processed, rawTokens, tmid, words1, done1, words2, done2, notTok>>

\* mid = text.size() / 2, the scan back, and the launch of the two tasks
PTSplit ==
    /\ tpc = "called"
    /\ Len(text) >= 2
    /\ LET s == scanBack(text, Len(text) \div 2, ub)
       IN  /\ tmid' = s.mid
           /\ tpc' = IF s.trap THEN "aborted" ELSE "forked"
    /\ UNCHANGED <<text, ub, processed, rawTokens, words1, done1, words2, done2, tokens, notTok>>

\* future1: tokenize(text.substr(0, mid))
PTTask1 ==
    /\ tpc = "forked"
    /\ ~done1
    /\ words1' = tokenize(SubSeq(text, 1, tmid))
    /\ done1' = TRUE
    /\ UNCHANGED <<text, ub, tpc, processed, rawTokens, tmid, words2, done2, tokens, notTok>>

\* future2: tokenize(text.substr(mid))
PTTask2 ==
    /\ tpc = "forked"
    /\ ~done2
    /\ words2' = tokenize(SubSeq(text, tmid + 1, Len(text)))
    /\ done2' = TRUE
    /\ UNCHANGED <<text, ub, tpc, processed, rawTokens, tmid, words1, done1, tokens, notTok>>

\* both get(), the merge of a word split across mid, and the concatenation
PTJoin ==
    /\ tpc = "forked"
    /\ done1 /\ done2
    /\ LET split == IF words1 # <<>> /\ words2 # <<>>
                    THEN wordCharAt(text, tmid, ub) ELSE "false"
       IN  /\ tpc' = IF split = "fault" THEN "aborted" ELSE "returned"
           /\ tokens' = CASE split = "true" ->
                               SubSeq(words1, 1, Len(words1) - 1)
                                   \o <<words1[Len(words1)] \o Head(words2)>>
                                   \o Tail(words2)
                          [] split = "false" -> words1 \o words2
                          [] split = "fault" -> tokens
    /\ UNCHANGED <<text, ub, processed, rawTokens, tmid, words1, done1, words2, done2, notTok>>

NextTok ==
    \/ PTReturnEmpty
    \/ PTReturnShort
    \/ PTSplit
    \/ PTTask1
    \/ PTTask2
    \/ PTJoin

SpecTok == InitTok /\ [][NextTok]_vars

\* ----------------------------------------------------------- writeToFile
\* the words handed to writeToFile; a file holds one word per line
FileWords == {"a", "b", "c"}

\* the destination before the first call: no file, or a file with some lines, and a
\* path that can or cannot be opened for writing (missing directory, no permission)
InitWrite ==
    /\ heap = <<>>
    /\ ClientInit
    /\ MergeInit
    /\ ParInit /\ words = <<>>
    /\ CallInit
    /\ TokInit
    /\ file \in {Absent} \cup {FileOf(l) : l \in SeqsUpTo(FileWords, MaxFileWords)}
    /\ openable \in BOOLEAN
    /\ wwords = <<>> /\ wstatus = "idle"
    /\ LateInit

\* writeToFile that opens the file before it looks at the words
WriteToFile_truncFirst(w) ==
    /\ wwords' = w
    /\ IF ~openable THEN file' = file /\ wstatus' = "threw"
       ELSE file' = FileOf(w) /\ wstatus' = "returned"
    /\ UNCHANGED <<openable, heap, clientVars, mergeVars, parVars,
                   failVars, stepVars, accessVars, tokVars, lateVars>>

\* writeToFile(filePath, w)
WriteToFile(w) ==
    /\ wwords' = w
    /\ IF w = <<>> THEN file' = file /\ wstatus' = "returned"
       ELSE IF ~openable THEN file' = file /\ wstatus' = "threw"
       ELSE file' = FileOf(w) /\ wstatus' = "returned"
    /\ UNCHANGED <<openable, heap, clientVars, mergeVars, parVars,
                   failVars, stepVars, accessVars, tokVars, lateVars>>

NextWrite == \E w \in SeqsUpTo(FileWords, MaxFileWords) : WriteToFile(w)

SpecWrite == InitWrite /\ [][NextWrite]_vars

\* --------------------------------------------------------------- readFile
\* what filePath can name: nothing, or a file of some bytes that can or cannot be opened
InFiles ==
    {AbsentFile} \cup
    {[exists |-> TRUE, readable |-> r, bytes |-> b] :
        r \in BOOLEAN, b \in SeqsUpTo(Chars, MaxFileBytes)}

\* readFile that answers a missing or unopenable file with the empty string
readFile_emptyOnMissing(f) ==
    IF ~f.exists \/ ~f.readable THEN [exc |-> NoException, content |-> <<>>]
    ELSE LET fileSize == Len(f.bytes)
             zeroed == [i \in 1..fileSize |-> 0]
         IN  [exc |-> NoException,
              content |-> [i \in 1..fileSize |-> f.bytes[i]]]

\* std::filesystem::exists, else runtime_error; the file is opened in binary mode at its
\* end, else ios_base::failure, which the catch turns into a runtime_error; content is
\* a string of fileSize zero bytes that file.read fills from the start of the file
readFile(f) ==
    IF ~f.exists THEN [exc |-> "runtime_error", content |-> <<>>]
    ELSE LET thrown == IF ~f.readable THEN "ios_base::failure" ELSE NoException
             fileSize == Len(f.bytes)
             zeroed == [i \in 1..fileSize |-> 0]
         IN  IF thrown # NoException THEN [exc |-> "runtime_error", content |-> <<>>]
             ELSE [exc |-> NoException,
                   content |-> [i \in 1..fileSize |->
                                   IF i <= Len(f.bytes) THEN f.bytes[i] ELSE zeroed[i]]]

InitRead ==
    /\ heap = <<>>
    /\ ClientInit
    /\ MergeInit
    /\ ParInit /\ words = <<>>
    /\ CallInit
    /\ TokInit
    /\ FileInit
    /\ FnInit
    /\ PipeInit
    /\ inFile \in InFiles
    /\ ReadLocalsInit

\* content = readFile(filePath)
ReadFile ==
    /\ rstatus = "idle"
    /\ LET r == readFile(inFile)
       IN  /\ rexc' = r.exc
           /\ rstatus' = IF r.exc = NoException THEN "returned" ELSE "threw"
           /\ content' = IF r.exc = NoException THEN r.content ELSE content
    /\ UNCHANGED <<inFile, heap, clientVars, mergeVars, parVars,
                   failVars, stepVars, accessVars, ioVars, fnVars, pipeVars>>

NextRead == ReadFile

SpecRead == InitRead /\ [][NextRead]_vars

\* -------------------------------------------------- processFileWithTiming
\* RBTree<std::string> orders its values by std::string's operator<.  A token, which
\* holds bytes of 1..127 only, is kept in the tree as the number that has its bytes as
\* base-128 digits, first byte first, padded to MaxFileBytes digits: the numbers are
\* ordered as the strings are.
RECURSIVE Pow128(_)
Pow128(n) == IF n = 0 THEN 1 ELSE 128 * Pow128(n - 1)

RECURSIVE strKey(_)
strKey(str) ==
    IF str = <<>> THEN 0
    ELSE Head(str) * Pow128(MaxFileBytes - 1) + strKey(Tail(str)) \div 128

keyStr(k) ==
    SelectSeq([i \in 1..MaxFileBytes |-> (k \div Pow128(MaxFileBytes - i)) % 128],
              LAMBDA d : d # 0)

\* processFileWithTiming is called for some input file and some output destination, in
\* some build; ub matters to the parallel path only
InitPipe ==
    /\ heap = <<>>
    /\ ClientInit
    /\ MergeInit
    /\ pc = "idle" /\ words = <<>>
    /\ mid = 0
    /\ tree1 = EmptyTree /\ pos1 = 1
    /\ tree2 = EmptyTree /\ pos2 = 1
    /\ result = EmptyTree
    /\ CallInit
    /\ FnInit
    /\ inFile \in InFiles
    /\ ReadLocalsInit
    /\ useParallel \in BOOLEAN
    /\ PipeLocalsInit
    /\ text = <<>> /\ tpc = "idle"
    /\ ub \in (IF useParallel THEN {"true", "false", "fault"} ELSE {"false"})
    /\ TokLocalsInit
    /\ file \in {Absent, FileOf(<< <<111>> >>)}
    /\ openable \in BOOLEAN
    /\ wwords = <<>> /\ wstatus = "idle"

\* Step 2: parallelTokenize(content) or tokenize(content) is called
CallTokenize ==
    /\ rstatus = "returned"
    /\ tpc = "idle"
    /\ text' = content
    /\ tpc' = "called"
    /\ UNCHANGED <<ub, processed, rawTokens, tmid, words1, done1, words2, done2, tokens, notTok>>

\* Step 3, useParallel: parallelInsert(tokens) is called
CallParallelInsert ==
    /\ tpc = "returned"
    /\ pc = "idle"
    /\ useParallel
    /\ words' = [i \in 1..Len(tokens) |-> strKey(tokens[i])]
    /\ pc' = "called"
    /\ UNCHANGED <<heap, mid, tree1, pos1, tree2, pos2, result, clientVars, mergeVars, otherVars>>

\* Step 3, sequential: std::accumulate(tokens.begin(), tokens.end(), RBTree<std::string>(), insert)
Accumulate ==
    /\ tpc = "returned"
    /\ pc = "idle"
    /\ ~useParallel
    /\ words' = [i \in 1..Len(tokens) |-> strKey(tokens[i])]
    /\ LET r == accumulateInsert(heap, words', 1, Len(words') + 1, EmptyTree)
       IN  heap' = r.h /\ result' = r.t
    /\ pc' = "returned"
    /\ UNCHANGED <<mid, tree1, pos1, tree2, pos2, clientVars, mergeVars, otherVars>>

\* Step 4: sorted = tree.getSortedValues()
GetSortedValues ==
    /\ pc = "returned"
    /\ sstatus = "idle"
    /\ sorted' = LET keys == getSortedValues(heap, result)
                 IN  [i \in 1..Len(keys) |-> keyStr(keys[i])]
    /\ sstatus' = "sorted"
    /\ UNCHANGED <<useParallel, reported, heap, clientVars, mergeVars, parVars,
                   failVars, stepVars, accessVars, ioVars, fnVars, readVars>>

\* Step 5: writeToFile(outputPath, sorted)
Write ==
    /\ sstatus = "sorted"
    /\ wstatus = "idle"
    /\ WriteToFile(sorted)

\* catch (const std::exception& e): std::cerr << "Error processing file: " << e.what()
Catch ==
    /\ rstatus = "threw" \/ pc = "threw" \/ wstatus = "threw"
    /\ ~reported
    /\ reported' = TRUE
    /\ UNCHANGED <<useParallel, sorted, sstatus, heap, clientVars, mergeVars, parVars,
                   failVars, stepVars, accessVars, ioVars, fnVars, readVars>>

NextPipe ==
    \/ ReadFile
    \/ CallTokenize
    \/ useParallel /\ NextTok
    \/ ~useParallel /\ NextTokenize
    \/ CallParallelInsert
    \/ NextParFail
    \/ Accumulate
    \/ GetSortedValues
    \/ Write
    \/ Catch

SpecPipe == InitPipe /\ [][NextPipe]_vars

\* ------------------------------------------- the private balance and ins
\* The trees the private functions are checked on: <<>> is the empty tree,
\* <<c, l, r>> a node of color c over the trees l and r.
RECURSIVE TreesOfSize(_)
TreesOfSize(n) ==
    IF n = 0 THEN {<<>>}
    ELSE UNION {{<<c, l, r>> : c \in Color, l \in TreesOfSize(k), r \in TreesOfSize(n - 1 - k)} :
                   k \in 0..(n - 1)}

TreesUpTo(n) == UNION {TreesOfSize(k) : k \in 0..n}

RECURSIVE Size(_)
Size(tree) == IF tree = <<>> THEN 0 ELSE 1 + Size(tree[2]) + Size(tree[3])

\* the nodes of tree made with the constructor, children first; the values are
\* first, first + 2, ... in in-order, so every tree is a search tree with room
\* for a new value between any two
RECURSIVE Allocate(_, _, _)
Allocate(h, tree, first) ==
    IF tree = <<>> THEN [h |-> h, t |-> EmptyTree]
    ELSE LET l == Allocate(h, tree[2], first)
             v == first + 2 * Size(tree[2])
             r == Allocate(l.h, tree[3], v + 2)
         IN  MkTree(r.h, tree[1], l.t, v, r.t)

\* balance(c, lft, x, rgt) is called on two trees and a value between them
InitBalance ==
    /\ ClientInit
    /\ MergeInit
    /\ ParInit /\ words = <<>>
    /\ CallInit
    /\ TokInit
    /\ FileInit
    /\ ReadInit
    /\ PipeInit
    /\ \E tl \in TreesUpTo(MaxArgNodes), tr \in TreesUpTo(MaxArgNodes) :
           LET l == Allocate(<<>>, tl, 2)
               x == 2 * Size(tl) + 2
               r == Allocate(l.h, tr, x + 2)
           IN  heap = r.h /\ argL = l.t /\ argX = x /\ argR = r.t
    /\ argC \in Color
    /\ res = EmptyTree
    /\ fpc = "called"

notFn == <<clientVars, mergeVars, parVars, failVars, stepVars, accessVars, ioVars,
           readVars, pipeVars>>

Balance ==
    /\ fpc = "called"
    /\ LET r == balance(heap, argC, argL, argX, argR)
       IN  heap' = r.h /\ res' = r.t
    /\ fpc' = "returned"
    /\ UNCHANGED <<argC, argL, argX, argR, notFn>>

NextBalance == Balance

SpecBalance == InitBalance /\ [][NextBalance]_vars

\* ------------------------------------------- the older ImmutableRedBlackTree
\* Its nodes live in the same store; color true is R, color false is B.
OldValues == 1..MaxOldVal

\* node->color of a node that may be null: node && node->color
IsRedNode(h, n) == n # nullptr /\ h[n].c = R

\* ImmutableRedBlackTree::balance(node): the four cases in the order of the
\* code, none looking at node->color; an inner make_shared is an argument of
\* the outer one and allocates first.
ImmutableRedBlackTree_balance(h, node) ==
    IF node = nullptr THEN [h |-> h, t |-> nullptr]
    ELSE LET l == h[node].lft
             r == h[node].rgt
         IN  IF IsRedNode(h, l) /\ IsRedNode(h, h[l].lft) THEN
                 LET b == MkTree(h, B, h[l].rgt, h[node].val, r)
                 IN  MkTree(b.h, R, h[l].lft, h[l].val, b.t)
             ELSE IF IsRedNode(h, l) /\ IsRedNode(h, h[l].rgt) THEN
                 LET a == MkTree(h, B, h[l].lft, h[l].val, h[h[l].rgt].lft)
                     b == MkTree(a.h, B, h[h[l].rgt].rgt, h[node].val, r)
                 IN  MkTree(b.h, R, a.t, h[h[l].rgt].val, b.t)
             ELSE IF IsRedNode(h, r) /\ IsRedNode(h, h[r].rgt) THEN
                 LET a == MkTree(h, B, l, h[node].val, h[r].lft)
                 IN  MkTree(a.h, R, a.t, h[r].val, h[r].rgt)
             ELSE IF IsRedNode(h, r) /\ IsRedNode(h, h[r].lft) THEN
                 LET a == MkTree(h, B, l, h[node].val, h[h[r].lft].lft)
                     b == MkTree(a.h, B, h[h[r].lft].rgt, h[r].val, h[r].rgt)
                 IN  MkTree(b.h, R, a.t, h[h[r].lft].val, b.t)
             ELSE [h |-> h, t |-> node]

\* the private insert(node, value); i ranges over the one result of the
\* recursive call, n over the node make_shared builds around it
RECURSIVE ImmutableRedBlackTree_insertNode(_, _, _)
ImmutableRedBlackTree_insertNode(h, node, value) ==
    IF node = nullptr THEN MkTree(h, R, nullptr, value, nullptr)
    ELSE IF value < h[node].val THEN
        CHOOSE b \in {ImmutableRedBlackTree_balance(n.h, n.t) :
                         n \in {MkTree(i.h, h[node].c, i.t, h[node].val, h[node].rgt) :
                                   i \in {ImmutableRedBlackTree_insertNode(h, h[node].lft, value)}}} : TRUE
    ELSE IF value > h[node].val THEN
        CHOOSE b \in {ImmutableRedBlackTree_balance(n.h, n.t) :
                         n \in {MkTree(i.h, h[node].c, h[node].lft, h[node].val, i.t) :
                                   i \in {ImmutableRedBlackTree_insertNode(h, h[node].rgt, value)}}} : TRUE
    ELSE [h |-> h, t |-> node]

\* the public insert(value): a Black copy of the root insert(root, value) built
ImmutableRedBlackTree_insert(h, t, value) ==
    LET newRoot == ImmutableRedBlackTree_insertNode(h, t, value)
    IN  MkTree(newRoot.h, B, newRoot.h[newRoot.t].lft, newRoot.h[newRoot.t].val,
               newRoot.h[newRoot.t].rgt)

\* tree = tree.insert(word) of the fold, on the older tree
OldInsert(x) ==
    /\ Len(inputs[Len(inputs)]) < MaxOldLen
    /\ LET r == ImmutableRedBlackTree_insert(heap, versions[Len(versions)], x)
       IN  /\ heap' = r.h
           /\ versions' = Append(versions, r.t)
           /\ inputs' = Append(inputs, Append(inputs[Len(inputs)], x))
    /\ UNCHANGED <<mergeVars, parVars, otherVars>>

NextOld == \E x \in OldValues : OldInsert(x)

SpecOld == Init /\ [][NextOld]_vars

\* ------------------------------------------------- vocabulary of the claims
\* the pointers of the nodes of the tree under handle t
RECURSIVE NodesOf(_, _)
NodesOf(h, t) ==
    IF t = nullptr THEN {}
    ELSE {t} \cup NodesOf(h, h[t].lft) \cup NodesOf(h, h[t].rgt)

\* the tree under handle t as a value: shape, colors and values, no pointers
RECURSIVE Shape(_, _)
Shape(h, t) ==
    IF t = nullptr THEN <<>>
    ELSE <<h[t].c, Shape(h, h[t].lft), h[t].val, Shape(h, h[t].rgt)>>

IsRed(h, t) == t # nullptr /\ h[t].c = R

\* the nodes ins(x) visits in t: from the root down to the node holding x,
\* or to an empty subtree
RECURSIVE SearchPath(_, _, _)
SearchPath(h, t, x) ==
    IF t = nullptr THEN {}
    ELSE IF x < h[t].val THEN {t} \cup SearchPath(h, h[t].lft, x)
    ELSE IF h[t].val < x THEN {t} \cup SearchPath(h, h[t].rgt, x)
    ELSE {t}

\* the subtrees that hang off the search path of x in t
OffPath(h, t, x) ==
    {q \in UNION {{h[p].lft, h[p].rgt} : p \in SearchPath(h, t, x)} :
        q # nullptr /\ q \notin SearchPath(h, t, x)}

\* the number of nodes on the longest path from t to an empty subtree
RECURSIVE Height(_, _)
Height(h, t) ==
    IF t = nullptr THEN 0
    ELSE LET l == Height(h, h[t].lft)
             r == Height(h, h[t].rgt)
         IN  1 + (IF l < r THEN r ELSE l)

NoRedRed(h, t) ==
    \A p \in NodesOf(h, t) :
        h[p].c = R => ~IsRed(h, h[p].lft) /\ ~IsRed(h, h[p].rgt)

\* the numbers of Black nodes on the paths from t to an empty subtree
RECURSIVE BlackCounts(_, _)
BlackCounts(h, t) ==
    IF t = nullptr THEN {0}
    ELSE LET d == IF h[t].c = B THEN 1 ELSE 0
         IN  {n + d : n \in BlackCounts(h, h[t].lft) \cup BlackCounts(h, h[t].rgt)}

UniformBlackHeight(h, t) == Cardinality(BlackCounts(h, t)) = 1

StrictlyIncreasing(seq) == \A i \in 1..(Len(seq) - 1) : seq[i] < seq[i + 1]

Range(seq) == {seq[i] : i \in 1..Len(seq)}

\* the ascending sequence of the elements of a finite set of integers
RECURSIVE SortedSeqOf(_)
SortedSeqOf(S) ==
    IF S = {} THEN <<>>
    ELSE LET m == CHOOSE x \in S : \A y \in S : x <= y
         IN  <<m>> \o SortedSeqOf(S \ {m})

\* ascending-sorted, duplicate-removed form of a sequence
SortedUnique(seq) == SortedSeqOf(Range(seq))

\* the handles insert has returned to the client (versions[1] is RBTree())
Returned == 2..Len(versions)

\* ------------------------------------------------------- the private ins
\* t.ins(x) is called on a red-black subtree t, of either root color, and some x
\* below, between or equal to its values
InitIns ==
    /\ ClientInit
    /\ MergeInit
    /\ ParInit /\ words = <<>>
    /\ CallInit
    /\ TokInit
    /\ FileInit
    /\ ReadInit
    /\ PipeInit
    /\ \E tree \in TreesUpTo(MaxInsNodes) :
           LET a == Allocate(<<>>, tree, 2)
           IN  /\ NoRedRed(a.h, a.t)
               /\ UniformBlackHeight(a.h, a.t)
               /\ heap = a.h /\ argL = a.t
               /\ argX \in 1..(2 * Size(tree) + 1)
    /\ argC = B /\ argR = EmptyTree
    /\ res = EmptyTree
    /\ fpc = "called"

Ins ==
    /\ fpc = "called"
    /\ LET r == ins(heap, argL, argX)
       IN  heap' = r.h /\ res' = r.t
    /\ fpc' = "returned"
    /\ UNCHANGED <<argC, argL, argX, argR, notFn>>

NextIns == Ins

SpecIns == InitIns /\ [][NextIns]_vars

\* ------------------------------------------------------------------ claims

\* C1: after every insert of a fold that starts from the empty tree, no Red
\* node of the tree has a Red child.
C1_NoRedRed == \A i \in DOMAIN versions : NoRedRed(heap, versions[i])

\* a fold of six distinct values whose tree has a Red node below a Black node that is not the root
C1_Witness ==
    \E i \in Returned :
        /\ Cardinality(NodesOf(heap, versions[i])) = 6
        /\ \E p \in NodesOf(heap, versions[i]) :
               /\ p # versions[i] /\ heap[p].c = B
               /\ (IsRed(heap, heap[p].lft) \/ IsRed(heap, heap[p].rgt))

\* C2: after every insert of the fold, every path from the root to an empty
\* subtree passes through the same number of Black nodes.
C2_UniformBlackHeight == \A i \in DOMAIN versions : UniformBlackHeight(heap, versions[i])

\* a tree of six nodes, some of them Red, whose paths all count two Black nodes
C2_Witness ==
    \E i \in Returned :
        /\ Cardinality(NodesOf(heap, versions[i])) = 6
        /\ BlackCounts(heap, versions[i]) = {2}
        /\ \E p \in NodesOf(heap, versions[i]) : heap[p].c = R

\* C3: getSortedValues() of the tree built by folding insert over a sequence
\* is the ascending, duplicate-free form of the sequence (the empty and the
\* one-element sequence included).
C3_SortedUnique ==
    \A i \in DOMAIN versions :
        getSortedValues(heap, versions[i]) = SortedUnique(inputs[i])

\* an unsorted sequence of six values with a repeated value has been folded
C3_Witness ==
    \E i \in Returned :
        /\ Len(inputs[i]) = 6
        /\ ~StrictlyIncreasing(inputs[i])
        /\ Cardinality(Range(inputs[i])) = 4
        /\ getSortedValues(heap, versions[i]) # inputs[i]

\* C4: the in-order traversal of every tree built by inserts is strictly
\* increasing, and every node's value lies above all values of its left
\* subtree and below all values of its right subtree.
C4_SearchTree ==
    \A i \in DOMAIN versions :
        /\ StrictlyIncreasing(getSortedValues(heap, versions[i]))
        /\ \A p \in NodesOf(heap, versions[i]) :
               /\ \A q \in NodesOf(heap, heap[p].lft) : heap[q].val < heap[p].val
               /\ \A q \in NodesOf(heap, heap[p].rgt) : heap[p].val < heap[q].val

\* a tree of five nodes, built from six inserts, one of a value already held, with two or more nodes on either side of the root
C4_Witness ==
    \E i \in Returned :
        /\ Cardinality(NodesOf(heap, versions[i])) = 5
        /\ Len(inputs[i]) = 6
        /\ Cardinality(NodesOf(heap, heap[versions[i]].lft)) >= 2
        /\ Cardinality(NodesOf(heap, heap[versions[i]].rgt)) >= 2

\* what ins returns for the insert that produced versions[i] of the fold
InsOf(i) == ins(heap, versions[i - 1], inputs[i][Len(inputs[i])])

\* C5: the handle insert returns is never empty and its root is Black, over
\* the children of the tree ins produced, whatever color ins gave the root;
\* insert on the empty tree returns one Black node with two empty children
\* although ins produced one Red node.
C5_BlackRoot ==
    \A i \in Returned :
        LET r == InsOf(i)
        IN  /\ ~isEmpty(versions[i])
            /\ rootColor(heap, versions[i]) = B
            /\ root(heap, versions[i]) = root(r.h, r.t)
            /\ Shape(heap, left(heap, versions[i])) = Shape(r.h, left(r.h, r.t))
            /\ Shape(heap, right(heap, versions[i])) = Shape(r.h, right(r.h, r.t))
            /\ Len(inputs[i]) = 1 =>
                   /\ Shape(r.h, r.t) = <<R, <<>>, inputs[i][1], <<>> >>
                   /\ Shape(heap, versions[i]) = <<B, <<>>, inputs[i][1], <<>> >>

\* insert into the empty tree has returned, and so has an insert into a
\* tree of three nodes for which ins produced a Red root
C5_Witness ==
    /\ Len(versions) >= 2
    /\ \E i \in Returned :
           /\ Cardinality(NodesOf(heap, versions[i - 1])) = 3
           /\ Cardinality(NodesOf(heap, versions[i])) = 4
           /\ rootColor(InsOf(i).h, InsOf(i).t) = R

\* C8: inserting a value that the tree already holds returns a tree with the
\* same getSortedValues() output.
C8_InsertPresent ==
    \A i \in Returned :
        inputs[i][Len(inputs[i])] \in Range(inputs[i - 1]) =>
            getSortedValues(heap, versions[i]) = getSortedValues(heap, versions[i - 1])

\* a value held by a leaf of a five-node tree has been inserted again
C8_Witness ==
    \E i \in Returned :
        /\ Cardinality(NodesOf(heap, versions[i - 1])) = 5
        /\ inputs[i][Len(inputs[i])] \in Range(inputs[i - 1])
        /\ inputs[i][Len(inputs[i])] # root(heap, versions[i - 1])

\* C6 as stated: every non-empty handle a public operation returns has a
\* Black root, the handles of insert, mergeTrees and parallelInsert and also
\* the sub-handles that left() and right() return for them.
C6_AllHandlesBlack ==
    \A t \in {tree1, tree2, result} :
        ~isEmpty(t) =>
            /\ rootColor(heap, t) = B
            /\ ~isEmpty(left(heap, t)) => rootColor(heap, left(heap, t)) = B
            /\ ~isEmpty(right(heap, t)) => rootColor(heap, right(heap, t)) = B

\* C6: every non-empty handle returned by insert (the workers' trees), by
\* mergeTrees and by parallelInsert (the result) has a Black root.
C6_ReturnedRootsBlack ==
    \A t \in {tree1, tree2, result} : ~isEmpty(t) => rootColor(heap, t) = B

\* parallelInsert has returned a tree merged from two non-empty trees, and
\* left() or right() of a returned handle has a Red root
C6_Witness ==
    /\ pc = "returned"
    /\ ~isEmpty(tree1) /\ ~isEmpty(tree2) /\ ~isEmpty(result)
    /\ result # tree1
    /\ \E t \in {tree1, tree2, result} :
           IsRed(heap, left(heap, t)) \/ IsRed(heap, right(heap, t))

\* C7: insert leaves every handle the client already holds as it was: same
\* root, same shape, colors and values, same getSortedValues() output,
\* whichever handle the insert was called on.
C7_OldHandlesIntact ==
    [][\A i \in DOMAIN versions :
           /\ versions'[i] = versions[i]
           /\ Shape(heap', versions[i]) = Shape(heap, versions[i])
           /\ getSortedValues(heap', versions[i]) = getSortedValues(heap, versions[i])]_vars

\* a non-empty handle t of which two different handles were derived, one of
\* them extended by a further insert
C7_Witness ==
    \E i, j, k, l \in DOMAIN versions :
        /\ ~isEmpty(versions[i])
        /\ j # k
        /\ Len(inputs[j]) = Len(inputs[i]) + 1
        /\ Len(inputs[k]) = Len(inputs[i]) + 1
        /\ Len(inputs[l]) = Len(inputs[i]) + 2
        /\ SubSeq(inputs[j], 1, Len(inputs[i])) = inputs[i]
        /\ SubSeq(inputs[k], 1, Len(inputs[i])) = inputs[i]
        /\ SubSeq(inputs[l], 1, Len(inputs[j])) = inputs[j]
        /\ Cardinality(NodesOf(heap, versions[l])) = 3
        /\ Cardinality(NodesOf(heap, versions[k])) = 2
        /\ Shape(heap, versions[i]) = <<B, <<>>, inputs[i][1], <<>> >>

\* the tree the sequential fold of processFileWithTiming builds from words
SequentialBuild == accumulateInsert(heap, words, 1, Len(words) + 1, EmptyTree)

\* C9: getSortedValues() of the tree parallelInsert returns equals that of
\* the tree built by folding insert over the whole input in order.
C9_ParallelEqualsSequential ==
    pc = "returned" =>
        getSortedValues(heap, result)
            = getSortedValues(SequentialBuild.h, SequentialBuild.t)

\* parallelInsert has returned for five unsorted words, a value of the first half repeated in the second
C9_Witness ==
    /\ pc = "returned"
    /\ Len(words) = 5
    /\ ~StrictlyIncreasing(words)
    /\ Range(SubSeq(words, 1, mid)) \cap Range(SubSeq(words, mid + 1, Len(words))) # {}
    /\ Cardinality(Range(words)) = 4

\* C10: getSortedValues() of mergeTrees(tree built from A, tree built from B)
\* is the ascending duplicate-free union of A and B.
C10_MergeIsUnion ==
    mpc = "merged" =>
        getSortedValues(heap, merged) = SortedUnique(seqA \o seqB)

\* two trees of two or more values have been merged that share a value and each hold a value the other lacks
C10_Witness ==
    /\ mpc = "merged"
    /\ Cardinality(Range(seqA)) >= 2
    /\ Cardinality(Range(seqB)) >= 2
    /\ Range(seqA) \cap Range(seqB) # {}
    /\ Range(seqA) \ Range(seqB) # {}
    /\ Range(seqB) \ Range(seqA) # {}
    /\ \E a \in Range(seqA), b \in Range(seqB) \ Range(seqA) : b < a

RedBlack(h, t) == NoRedRed(h, t) /\ UniformBlackHeight(h, t)

\* C11: the tree parallelInsert returns for a non-empty input, and the tree
\* mergeTrees returns for two trees built by inserts (the two workers' trees
\* at any point of their folds, merged either way round), has no Red node
\* with a Red child and the same number of Black nodes on every path.
C11_ParallelAndMergeRedBlack ==
    /\ pc = "returned" /\ words # <<>> => RedBlack(heap, result)
    /\ pc # "called" =>
           LET m12 == mergeTrees(heap, tree1, tree2)
               m21 == mergeTrees(heap, tree2, tree1)
           IN  RedBlack(m12.h, m12.t) /\ RedBlack(m21.h, m21.t)

\* parallelInsert has returned a tree of four nodes, some Red, merged from two non-empty trees
C11_Witness ==
    /\ pc = "returned"
    /\ Cardinality(NodesOf(heap, tree1)) = 2
    /\ Cardinality(NodesOf(heap, tree2)) >= 2
    /\ Cardinality(NodesOf(heap, result)) = 4
    /\ \E p \in NodesOf(heap, result) : heap[p].c = R

\* C12: parallelInsert on the empty vector returns an empty handle whose
\* in-order output is empty, launches no worker and merges nothing (no node
\* is ever allocated).
C12_EmptyInput ==
    words = <<>> =>
        /\ pc \in {"called", "returned"}
        /\ heap = <<>>
        /\ tree1 = EmptyTree /\ tree2 = EmptyTree
        /\ pos1 = 1 /\ pos2 = 1
        /\ pc = "returned" =>
               /\ isEmpty(result)
               /\ getSortedValues(heap, result) = <<>>

\* parallelInsert has returned for the empty vector
C12_Witness == words = <<>> /\ pc = "returned"

\* what the accessor op yields on the non-empty handle t
FieldOf(h, t, op) ==
    CASE op = "root" -> root(h, t)
      [] op = "rootColor" -> rootColor(h, t)
      [] op = "left" -> left(h, t)
      [] op = "right" -> right(h, t)

\* C13: root(), rootColor(), left() and right() called on an empty handle end
\* in the assertion fault and return nothing, no value and no handle; called
\* on a non-empty handle they do not fault and return the node's field.
C13_AccessorsFaultOnEmpty ==
    call # NoCall =>
        /\ fault <=> isEmpty(call.t)
        /\ fault => ret = NoValue
        /\ ~fault => ret = FieldOf(heap, call.t, call.op)

\* left() was called on the empty handle that right() of a built tree had returned
C13_Witness ==
    /\ fault
    /\ call.op = "left"
    /\ isEmpty(call.t)
    /\ \E i \in DOMAIN versions :
           ~isEmpty(versions[i]) /\ isEmpty(right(heap, versions[i]))

\* C14: once a worker of parallelInsert has failed, no step returns a tree or
\* sets a result; the failure stays recorded; and the step the caller takes
\* once both workers have ended raises it without running mergeTrees (no
\* node is allocated), whatever tree the other worker has finished.
C14_WorkerFailureRaised ==
    [][(exc1 \/ exc2) =>
           /\ pc' \in {"forked", "threw"}
           /\ result' = EmptyTree
           /\ exc1 => exc1'
           /\ exc2 => exc2'
           /\ (exc1 \/ pos1 = mid + 1) /\ (exc2 \/ pos2 = Len(words) + 1) =>
                  pc' = "threw" /\ heap' = heap]_vars

\* the first worker failed on its second element after the second worker
\* had finished a tree of two nodes or more, and the caller got the exception
C14_Witness ==
    /\ pc = "threw"
    /\ exc1 /\ ~exc2
    /\ pos1 = 2 /\ mid >= 2
    /\ pos2 = Len(words) + 1
    /\ Cardinality(NodesOf(heap, tree2)) >= 2
    /\ isEmpty(result)

\* C15: the merge, and with it the return of parallelInsert, happens only
\* in a step taken after both workers have folded their whole range; until
\* then the caller has no result and the step is a worker's.
C15_MergeAfterBothWorkers ==
    [][/\ (pc = "forked" /\ (result' # result \/ pc' # pc)) =>
              /\ pos1 = mid + 1 /\ pos2 = Len(words) + 1
              /\ getSortedValues(heap, tree1) = SortedUnique(SubSeq(words, 1, mid))
              /\ getSortedValues(heap, tree2) = SortedUnique(SubSeq(words, mid + 1, Len(words)))
              /\ <<tree1, pos1, tree2, pos2>>' = <<tree1, pos1, tree2, pos2>>
       /\ (pc = "forked" /\ (pos1 < mid + 1 \/ pos2 < Len(words) + 1)) =>
              pc' = "forked" /\ result' = result]_vars

\* parallelInsert has merged and returned after both workers inserted two or more values
C15_Witness ==
    /\ pc = "returned"
    /\ mid >= 2
    /\ pos1 = mid + 1 /\ pos2 = Len(words) + 1
    /\ result # tree1

\* the tree that folding insert over seq builds in a heap of its own
FoldAlone(seq) == accumulateInsert(<<>>, seq, 1, Len(seq) + 1, EmptyTree)

\* what parallelInsert returns when the first worker runs to its end before the second starts
OneAfterTheOther ==
    LET a == accumulateInsert(<<>>, words, 1, mid + 1, EmptyTree)
        b == accumulateInsert(a.h, words, mid + 1, Len(words) + 1, EmptyTree)
    IN  mergeTrees(b.h, a.t, b.t)

\* C16: the two workers share no mutable state.  Each reads only the words
\* of its own index range and writes only its own tree, which at every
\* point is the tree its own prefix alone would build; no step changes the
\* input or a node that exists; and the tree parallelInsert returns has the
\* same shape, colors and values under every interleaving.
C16_WorkersIndependent ==
    [][/\ words' = words
       /\ SubSeq(heap', 1, Len(heap)) = heap
       /\ tree1' # tree1 => /\ pos1 \in 1..mid
                            /\ <<tree2, pos2>>' = <<tree2, pos2>>
       /\ tree2' # tree2 => /\ pos2 \in (mid + 1)..Len(words)
                            /\ <<tree1, pos1>>' = <<tree1, pos1>>
       /\ pc' = "forked" =>
              /\ Shape(heap', tree1') = Shape(FoldAlone(SubSeq(words, 1, pos1' - 1)).h,
                                              FoldAlone(SubSeq(words, 1, pos1' - 1)).t)
              /\ Shape(heap', tree2') = Shape(FoldAlone(SubSeq(words, mid' + 1, pos2' - 1)).h,
                                              FoldAlone(SubSeq(words, mid' + 1, pos2' - 1)).t)
       /\ (pc' = "returned" /\ words # <<>>) =>
              Shape(heap', result') = Shape(OneAfterTheOther.h, OneAfterTheOther.t)]_vars

\* parallelInsert has returned after the workers' inserts were interleaved:
\* a node of the second worker's tree was allocated before the first worker's last
C16_Witness ==
    /\ pc = "returned"
    /\ Len(words) = 5
    /\ \E p \in NodesOf(heap, tree2) : p < tree1
    /\ \E p \in NodesOf(heap, tree1) : p < tree2 /\ \E q \in NodesOf(heap, tree2) : q < p

\* C17: under fair scheduling parallelInsert returns for every input, each
\* worker having folded every element of its half, one insert per element;
\* a worker that has elements left can always take its step, and so can the
\* merge once both workers are through: nothing waits but the join.
C17_Terminates ==
    /\ <>(pc = "returned" /\ pos1 = mid + 1 /\ pos2 = Len(words) + 1)
    /\ [](pc = "forked" /\ pos1 < mid + 1 => ENABLED Worker1Step)
    /\ [](pc = "forked" /\ pos2 < Len(words) + 1 => ENABLED Worker2Step)
    /\ [](pc = "forked" /\ pos1 = mid + 1 /\ pos2 = Len(words) + 1 => ENABLED MergeBegin)
    /\ [](pc = "merging" => ENABLED MergeStep \/ ENABLED MergeReturn)

\* parallelInsert has returned for four words, two inserts by each worker
C17_Witness ==
    /\ pc = "returned"
    /\ Len(words) = 4
    /\ pos1 = 3 /\ pos2 = 5
    /\ ~isEmpty(result)

\* a byte of a word: alphanumeric or apostrophe; every other byte separates
IsWordChar(c) == isalnum(c) \/ c = Apostrophe

\* the words of str: for every maximal run of word bytes that holds an
\* alphanumeric byte, the run from its first to its last alphanumeric byte,
\* lower-cased, the runs taken in the order they start in str
WordsOf(str) ==
    LET isStart(i) == IsWordChar(str[i]) /\ (i = 1 \/ ~IsWordChar(str[i - 1]))
        runEnd(i) == CHOOSE j \in i..Len(str) :
                         /\ \A k \in i..j : IsWordChar(str[k])
                         /\ j = Len(str) \/ ~IsWordChar(str[j + 1])
        alnums(i) == {k \in i..runEnd(i) : isalnum(str[k])}
        starts == SortedSeqOf({i \in 1..Len(str) : isStart(i) /\ alnums(i) # {}})
        first(i) == CHOOSE k \in alnums(i) : \A m \in alnums(i) : k <= m
        last(i) == CHOOSE k \in alnums(i) : \A m \in alnums(i) : m <= k
    IN  [n \in 1..Len(starts) |->
            [k \in 1..(last(starts[n]) - first(starts[n]) + 1) |->
                tolower(str[first(starts[n]) + k - 1])]]

\* C19: every token tokenize returns is non-empty, made of lower-case
\* letters, digits and apostrophes only, with no apostrophe at either end;
\* every other byte separates, and the tokens are the words of the text in
\* their order of appearance.
C19_TokensNormalised ==
    tpc = "returned" =>
        /\ \A n \in 1..Len(tokens) :
               /\ tokens[n] # <<>>
               /\ \A k \in 1..Len(tokens[n]) :
                      tokens[n][k] \in (97..122) \cup (48..57) \cup {Apostrophe}
               /\ tokens[n][1] # Apostrophe
               /\ tokens[n][Len(tokens[n])] # Apostrophe
        /\ tokens = WordsOf(text)

\* tokenize of "B'.7" has returned "b" and "7": lower-cased, the apostrophe trimmed, split at '.'
C19_Witness ==
    /\ tpc = "returned"
    /\ text = <<66, 39, 46, 55>>
    /\ tokens = << <<98>>, <<55>> >>

C20_EmptyWriteIsNoOp ==
    [][wwords' = <<>> => file' = file /\ wstatus' = "returned"]_vars

\* writeToFile has returned from a call with no words on a destination that
\* cannot be opened and holds two lines
C20_Witness ==
    /\ wstatus = "returned"
    /\ wwords = <<>>
    /\ ~openable
    /\ file = FileOf(<<"a", "b">>)

\* C21: readFile on a path that names nothing, or a file that cannot be
\* opened, throws a std::runtime_error and returns no content; on a file
\* that exists and can be opened it returns exactly the bytes of the file.
C21_ReadFile ==
    rstatus # "idle" =>
        /\ (~inFile.exists \/ ~inFile.readable) =>
               rstatus = "threw" /\ rexc = "runtime_error" /\ content = <<>>
        /\ (inFile.exists /\ inFile.readable) =>
               rstatus = "returned" /\ rexc = NoException /\ content = inFile.bytes

\* readFile has thrown on a file of three bytes that exists and cannot be opened
C21_Witness ==
    /\ rstatus = "threw"
    /\ inFile.exists /\ ~inFile.readable
    /\ Len(inFile.bytes) = 3

\* a step of processFileWithTiming has thrown
Thrown == rstatus = "threw" \/ pc = "threw" \/ wstatus = "threw"

Painted(s, c) == <<c, s[2], s[3], s[4]>>

\* the case of balance that applies to the call: the first that matches of
\* left-left, left-right, right-left, right-right, and none when c is Red
CaseOf(h, c, lft, rgt) ==
    IF c = R THEN "none"
    ELSE IF IsRed(h, lft) /\ IsRed(h, h[lft].lft) THEN "left-left"
    ELSE IF IsRed(h, lft) /\ IsRed(h, h[lft].rgt) THEN "left-right"
    ELSE IF IsRed(h, rgt) /\ IsRed(h, h[rgt].lft) THEN "right-left"
    ELSE IF IsRed(h, rgt) /\ IsRed(h, h[rgt].rgt) THEN "right-right"
    ELSE "none"

\* C23: balance applies the first case that matches, in the order left-left,
\* left-right, right-left, right-right, and only for a Black c; otherwise it
\* returns the node (c, lft, x, rgt).  Left-left gives a Red root with lft's
\* value over lft's left child painted Black and a Black node (lft's right
\* child, x, rgt); the other three cases give their rotation.
C23_BalanceCases ==
    fpc = "returned" =>
        LET l == Shape(heap, argL)
            r == Shape(heap, argR)
            case == CaseOf(heap, argC, argL, argR)
        IN  Shape(heap, res) =
                CASE case = "left-left" ->
                         <<R, Painted(l[2], B), l[3], <<B, l[4], argX, r>> >>
                  [] case = "left-right" ->
                         <<R, <<B, l[2], l[3], l[4][2]>>, l[4][3], <<B, l[4][4], argX, r>> >>
                  [] case = "right-left" ->
                         <<R, <<B, l, argX, r[2][2]>>, r[2][3], <<B, r[2][4], r[3], r[4]>> >>
                  [] case = "right-right" ->
                         <<R, <<B, l, argX, r[2]>>, r[3], Painted(r[4], B)>>
                  [] case = "none" -> <<argC, l, argX, r>>

\* balance has returned from a call with a Black c in which lft is Red with
\* two Red children and rgt is Red with a Red right child: left-left applied
C23_Witness ==
    /\ fpc = "returned"
    /\ argC = B
    /\ IsRed(heap, argL) /\ IsRed(heap, heap[argL].lft) /\ IsRed(heap, heap[argL].rgt)
    /\ IsRed(heap, argR) /\ IsRed(heap, heap[argR].rgt)
    /\ heap[res].val = heap[argL].val

\* C24: in every case the in-order sequence of balance's result is that of
\* lft, then x, then that of rgt; and for a Black c and lft and rgt of one
\* and the same black-height h, every path of the result has h + 1 Black nodes.
C24_BalancePreserves ==
    fpc = "returned" =>
        /\ getSortedValues(heap, res)
               = getSortedValues(heap, argL) \o <<argX>> \o getSortedValues(heap, argR)
        /\ (/\ argC = B
            /\ UniformBlackHeight(heap, argL)
            /\ BlackCounts(heap, argL) = BlackCounts(heap, argR)) =>
               BlackCounts(heap, res) = {n + 1 : n \in BlackCounts(heap, argL)}

\* balance has returned from a left-right call on an lft of three Red nodes
\* and a Red rgt, both of black-height 0, with a result of black-height 1
C24_Witness ==
    /\ fpc = "returned"
    /\ CaseOf(heap, argC, argL, argR) = "left-right"
    /\ Cardinality(NodesOf(heap, argL)) = 3
    /\ BlackCounts(heap, argL) = {0}
    /\ IsRed(heap, argR)
    /\ BlackCounts(heap, argR) = {0}
    /\ BlackCounts(heap, res) = {1}

\* the Red nodes of the tree under t that have a Red child
RedRedNodes(h, t) ==
    {p \in NodesOf(h, t) : h[p].c = R /\ (IsRed(h, h[p].lft) \/ IsRed(h, h[p].rgt))}

\* C25: ins on a red-black subtree t returns a tree of t's black-height, on
\* every path; a Red node with a Red child occurs in it at the root only,
\* with one Red child only, and only if t's root was Red.
C25_InsInvariant ==
    fpc = "returned" =>
        /\ BlackCounts(heap, res) = BlackCounts(heap, argL)
        /\ RedRedNodes(heap, res) \subseteq {res}
        /\ RedRedNodes(heap, res) # {} =>
               /\ IsRed(heap, argL)
               /\ ~(IsRed(heap, heap[res].lft) /\ IsRed(heap, heap[res].rgt))

\* ins has returned a Red root with a Red child: the insert below the Black
\* child of a Red root made that child's subtree rotate
C25_Witness ==
    /\ fpc = "returned"
    /\ IsRed(heap, argL)
    /\ RedRedNodes(heap, res) = {res}
    /\ Cardinality(NodesOf(heap, res)) = 5

\* C26: for n >= 1 values worker 1 is given the indices [0, n/2) and worker
\* 2 the indices [n/2, n) (1..mid and mid + 1..n here): each starts from
\* the empty tree at the first index of its range, each of its steps
\* inserts the value at its index and moves to the next index, it never
\* leaves its range, and the caller merges only when both are at the end
\* of their ranges, so that every index was inserted once, by one worker.
C26_HalvesLeftToRight ==
    /\ [](pc \in {"forked", "returned"} /\ words # <<>> =>
              /\ mid = Len(words) \div 2
              /\ Len(words) = 1 => mid = 0 /\ pos1 = 1 /\ isEmpty(tree1)
              /\ pos1 \in 1..(mid + 1)
              /\ pos2 \in (mid + 1)..(Len(words) + 1)
              /\ pc = "returned" => pos1 = mid + 1 /\ pos2 = Len(words) + 1)
    /\ [][/\ pc = "called" /\ pc' = "forked" =>
                 /\ isEmpty(tree1') /\ pos1' = 1
                 /\ isEmpty(tree2') /\ pos2' = Len(words) \div 2 + 1
          /\ pc = "forked" /\ <<tree1, pos1>>' # <<tree1, pos1>> =>
                 /\ pos1' = pos1 + 1
                 /\ Shape(heap', tree1')
                        = Shape(insert(heap, tree1, words[pos1]).h,
                                insert(heap, tree1, words[pos1]).t)
          /\ pc = "forked" /\ <<tree2, pos2>>' # <<tree2, pos2>> =>
                 /\ pos2' = pos2 + 1
                 /\ Shape(heap', tree2')
                        = Shape(insert(heap, tree2, words[pos2]).h,
                                insert(heap, tree2, words[pos2]).t)]_vars

\* parallelInsert has returned for five values: worker 1 inserted the first
\* two, worker 2 the last three
C26_Witness ==
    /\ pc = "returned"
    /\ Len(words) = 5
    /\ mid = 2
    /\ getSortedValues(heap, tree1) = SortedUnique(SubSeq(words, 1, 2))
    /\ getSortedValues(heap, tree2) = SortedUnique(SubSeq(words, 3, 5))
    /\ Cardinality(NodesOf(heap, tree2)) = 3

\* C27: mergeTrees(a, b) folds over b's in-order sequence, which is
\* ascending: it starts from a, each iteration is one public insert of the
\* next value of that sequence into the accumulated tree, and it returns
\* after the last value, so there is one insert per element; a, b and every
\* node that existed before are left as they were. With b empty the handle
\* returned is a's root; with a empty the result has the content of b.
C27_MergeOneInsertPerElement ==
    /\ [](mpc \in {"merging", "merged"} =>
              /\ sortedValues = getSortedValues(heap, treeB)
              /\ StrictlyIncreasing(sortedValues)
              /\ mpos \in 1..(Len(sortedValues) + 1)
              /\ mpos = 1 => acc = treeA
              /\ getSortedValues(heap, treeA) = SortedUnique(seqA)
              /\ getSortedValues(heap, treeB) = SortedUnique(seqB)
              /\ mpc = "merged" =>
                     /\ mpos = Len(sortedValues) + 1
                     /\ merged = acc
                     /\ isEmpty(treeB) => merged = treeA
                     /\ isEmpty(treeA) => getSortedValues(heap, merged)
                                              = getSortedValues(heap, treeB))
    /\ [][mpc' \in {"merging", "merged"} =>
              /\ Shape(heap', treeA') = Shape(heap, treeA) /\ treeA' = treeA
              /\ Shape(heap', treeB') = Shape(heap, treeB) /\ treeB' = treeB
              /\ SubSeq(heap', 1, Len(heap)) = heap
              /\ mpc = "B" => acc' = treeA /\ mpos' = 1 /\ heap' = heap
              /\ mpc = "merging" /\ mpc' = "merging" =>
                     /\ mpos' = mpos + 1
                     /\ sortedValues' = sortedValues
                     /\ Shape(heap', acc')
                            = Shape(insert(heap, acc, sortedValues[mpos]).h,
                                    insert(heap, acc, sortedValues[mpos]).t)
              /\ mpc = "merging" /\ mpc' = "merged" => heap' = heap]_vars

\* mergeTrees has returned for b built from 3, 1, 2 and a built from 4, 2:
\* three inserts were made, of 1, 2 and 3
C27_Witness ==
    /\ mpc = "merged"
    /\ seqA = <<4, 2>>
    /\ seqB = <<3, 1, 2>>
    /\ sortedValues = <<1, 2, 3>>
    /\ mpos = 4
    /\ getSortedValues(heap, merged) = <<1, 2, 3, 4>>

\* C28: a tree built by public inserts from the empty tree and holding n
\* values has height at most 2 * log2(n + 1), that is 2^height <= (n + 1)^2,
\* and ins of any value into it nests at most height + 1 deep.
C28_HeightLogarithmic ==
    \A i \in 1..Len(versions) :
        LET n == Cardinality(NodesOf(heap, versions[i]))
            height == Height(heap, versions[i])
        IN  /\ n = Cardinality(Range(inputs[i]))
            /\ 2^height <= (n + 1) * (n + 1)
            /\ \A x \in 0..(MaxVal + 1) : insDepth(heap, versions[i], x) <= height + 1

\* six ascending values were inserted: the tree has height 4 and an ins of
\* a larger value nests 5 deep
C28_Witness ==
    \E i \in 1..Len(versions) :
        /\ inputs[i] = <<1, 2, 3, 4, 5, 6>>
        /\ Height(heap, versions[i]) = 4
        /\ insDepth(heap, versions[i], MaxVal + 1) = 5

\* C29: insert(x) on t allocates nodes only for values on the search path of
\* x in t and for x itself, at most three for each level of the path and
\* one for the root; every subtree of t hanging off that path is a subtree
\* of the result under the same pointer; and every node that existed
\* before the call keeps its color, value and children.
C29_PathCopying ==
    [][LET t == versions[Len(versions)]
           new == versions'[Len(versions')]
           x == inputs'[Len(inputs')][Len(inputs'[Len(inputs')])]
           path == SearchPath(heap, t, x)
       IN  /\ SubSeq(heap', 1, Len(heap)) = heap
           /\ \A p \in (Len(heap) + 1)..Len(heap') :
                  heap'[p].val \in {heap[q].val : q \in path} \cup {x}
           /\ Len(heap') - Len(heap) <= 3 * Cardinality(path) + 2
           /\ NodesOf(heap', new) \cap path \subseteq {q \in path : heap[q].val = x}
           /\ \A q \in OffPath(heap, t, x) :
                  /\ q \in NodesOf(heap', new)
                  /\ NodesOf(heap, q) \subseteq NodesOf(heap', new)
                  /\ Shape(heap', q) = Shape(heap, q)]_vars

\* the fifth insert went down a path of two nodes or more, rebuilt it with
\* a rotation, and the result shares a subtree that hung off the path
C29_Witness ==
    \E i \in 2..Len(versions) :
        LET t == versions[i - 1]
            x == inputs[i][Len(inputs[i])]
        IN  /\ Len(inputs[i]) = 5
            /\ Cardinality(SearchPath(heap, t, x)) >= 2
            /\ \E q \in OffPath(heap, t, x) : q \in NodesOf(heap, versions[i])
            /\ Cardinality(NodesOf(heap, versions[i]) \ NodesOf(heap, t)) >= 4

\* C30: every tree the older ImmutableRedBlackTree's public insert returns
\* in a fold from the empty tree has a Black root, no Red node with a Red
\* child, and the same number of Black nodes on every path from the root
\* to an empty subtree.
C30_OldTreeRedBlack ==
    \A i \in 2..Len(versions) :
        /\ heap[versions[i]].c = B
        /\ NoRedRed(heap, versions[i])
        /\ UniformBlackHeight(heap, versions[i])

====
